---- MODULE Spec2Model ----
(***************************************************************************)
(* Lab session bookkeeping (LabManager, lab-manager.py) and the lab        *)
(* validation framework (LabValidator, scripts/lab-validator.py).          *)
(*                                                                         *)
(* The sessions file is modelled as the JSON document it holds; every      *)
(* LabManager operation loads it into Python values, changes them and      *)
(* dumps them back, as the code does.  Wall-clock time is a counter of     *)
(* seconds; AWS and the cleanup script are the environment, whose answers  *)
(* are drawn afresh at every call.                                         *)
(***************************************************************************)
EXTENDS Integers, Sequences, FiniteSets, TLC

\* ------------------------------------------------------------------ bounds
\* Seconds of wall-clock time the model lets pass.
MaxClock == 1
\* Number of session records the sessions file may hold.
MaxSessions == 2
\* Number of calls in one run that write the sessions file.
MaxWrites == 3
\* Number of resources of one kind an inventory may list.
MaxRes == 1
\* Number of CloudFormation stacks in the account the validator looks at.
MaxStacks == 2
\* Number of dependency entries (DependsOn, Ref, Fn::GetAtt) in one template.
MaxEdges == 3
\* Length of the list of services given to estimate_lab_cost.
MaxServices == 2

VARIABLES
    sessions_file,      \* LabManager.sessions_file: the JSON document on disk
    clock,              \* datetime.now(), in whole seconds
    aws_available,      \* LabManager.aws_available
    call,               \* the command being run: operation, arguments, result
    before,             \* the sessions file as it was when that command began
    saved,              \* the Python map handed to the last _save_sessions
    writes,             \* number of calls so far that wrote the sessions file
    used,               \* per session id, the step names update_session_progress was given
    account,            \* what the AWS account answers to the validator
    config,             \* LabValidator.config
    validation_results, \* LabValidator.validation_results
    v_aws_available,    \* LabValidator.aws_available
    v_call,             \* the last LabValidator call and what it returned
    template,           \* the CloudFormation template file given to CloudFormationValidator
    dependency_call,    \* the last validate_dependencies call and what it returned
    pricing_call,       \* the last estimate_lab_cost call and what it returned
    config_service,     \* what AWS Config answers to the remediation script
    executions,         \* the start_remediation_execution calls AWS Config has received
    rem_call,           \* the last run of the remediation script and what it returned
    procs,              \* the LabManager processes that run start_lab side by side
    lambda_call,        \* the last Config-rule Lambda invocation and what it returned
    config_evaluations  \* the put_evaluations requests AWS Config has received

mgr_vars == <<sessions_file, clock, aws_available, call, before, saved, writes, used>>
val_vars == <<account, config, validation_results, v_aws_available, v_call>>
tool_vars == <<template, dependency_call, pricing_call, config_service, executions, rem_call>>
extra_vars == <<procs, lambda_call, config_evaluations>>
vars == <<sessions_file, clock, aws_available, call, before, saved, writes, used,
          account, config, validation_results, v_aws_available, v_call,
          template, dependency_call, pricing_call, config_service, executions, rem_call,
          procs, lambda_call, config_evaluations>>

\* ------------------------------------------------------- Python values
\* A key that a dict does not have.
Absent == [ty |-> "absent"]
PyNone == [ty |-> "NoneType"]
PyStr(p) == [ty |-> "str", s |-> p]
PyBool(b) == [ty |-> "bool", b |-> b]
\* An ordinary text string.
Text(t) == PyStr([text |-> t])
\* datetime.now(): a datetime object.
datetime_now(t) == [ty |-> "datetime", t |-> t]
\* datetime.isoformat(): 'YYYY-MM-DDTHH:MM:SS'.
isoformat(d) == PyStr([fmt |-> "iso", t |-> d.t])
\* str(datetime): 'YYYY-MM-DD HH:MM:SS' (a space, not a 'T').
py_str(o) == IF o.ty = "datetime" THEN PyStr([fmt |-> "space", t |-> o.t]) ELSE o
\* Python truthiness of an optional string argument ("if notes:").
Truthy(v) == v.ty = "str" /\ v.s # [text |-> ""]

\* A float kept as the exact fraction num/den in lowest terms.
RECURSIVE GCD(_, _)
GCD(a, b) == IF b = 0 THEN a ELSE GCD(b, a % b)

Frac(n, d) == LET g == GCD(n, d) IN IF n = 0 THEN [num |-> 0, den |-> 1] ELSE [num |-> n \div g, den |-> d \div g]

\* ------------------------------------------------------------- JSON
\* json.dump(..., default=str) of one scalar: what json cannot serialise
\* goes through str().
json_encode(v) ==
    CASE v.ty = "absent" -> Absent
      [] v.ty = "NoneType" -> [ty |-> "null"]
      [] v.ty = "str" -> [ty |-> "string", s |-> v.s]
      [] v.ty = "bool" -> [ty |-> "boolean", b |-> v.b]
      [] OTHER -> [ty |-> "string", s |-> py_str(v).s]

\* A load that turns ISO time strings back into datetime objects.
json_decode_parsing_dates(j) ==
    CASE j.ty = "absent" -> Absent
      [] j.ty = "null" -> PyNone
      [] j.ty = "string" -> IF j.s \in {[fmt |-> "iso", t |-> t] : t \in 0..(MaxClock + 1)}
                            THEN datetime_now(j.s.t) ELSE PyStr(j.s)
      [] j.ty = "boolean" -> PyBool(j.b)

\* json.load of one scalar.
json_decode(j) ==
    CASE j.ty = "absent" -> Absent
      [] j.ty = "null" -> PyNone
      [] j.ty = "string" -> PyStr(j.s)
      [] j.ty = "boolean" -> PyBool(j.b)

json_encode_step(st) ==
    [st EXCEPT !.started_at = json_encode(@), !.completed_at = json_encode(@),
               !.notes = json_encode(@)]

json_decode_step(st) ==
    [st EXCEPT !.started_at = json_decode(@), !.completed_at = json_decode(@),
               !.notes = json_decode(@)]

json_encode_progress(p) ==
    IF p.ty = "absent" THEN Absent
    ELSE [ty |-> "object",
          steps |-> [i \in DOMAIN p.steps |-> json_encode_step(p.steps[i])],
          current_step |-> json_encode(p.current_step),
          completion_percentage |-> p.completion_percentage,
          last_updated |-> json_encode(p.last_updated)]

json_decode_progress(p) ==
    IF p.ty = "absent" THEN Absent
    ELSE [ty |-> "dict",
          steps |-> [i \in DOMAIN p.steps |-> json_decode_step(p.steps[i])],
          current_step |-> json_decode(p.current_step),
          completion_percentage |-> p.completion_percentage,
          last_updated |-> json_decode(p.last_updated)]

json_encode_session(s) ==
    [s EXCEPT !.start_time = json_encode(@), !.end_time = json_encode(@),
              !.cleanup_time = json_encode(@), !.cleanup_verified = json_encode(@),
              !.completion_time = json_encode(@), !.progress = json_encode_progress(@)]

json_decode_session(s) ==
    [s EXCEPT !.start_time = json_decode(@), !.end_time = json_decode(@),
              !.cleanup_time = json_decode(@), !.cleanup_verified = json_decode(@),
              !.completion_time = json_decode(@), !.progress = json_decode_progress(@)]

\* The map with no key ({}).
EmptyMap == [k \in {} |-> Absent]

\* LabManager._load_sessions: the file's document as Python values; {} when
\* the file is missing or is not JSON.
_load_sessions(file) ==
    IF file.readable
    THEN [k \in DOMAIN file.doc |-> json_decode_session(file.doc[k])]
    ELSE EmptyMap

\* LabManager._save_sessions: the file now holds the dump of the map.
_save_sessions(sessions) ==
    [readable |-> TRUE, doc |-> [k \in DOMAIN sessions |-> json_encode_session(sessions[k])]]

\* ------------------------------------------------------ configuration
\* labs.yaml: lab id -> metadata (costs in cents).
labs ==
    ("iac-cloudformation" :> [name |-> "CloudFormation", category |-> "iac", estimated_cost |-> 150])
    @@ ("cicd-codepipeline" :> [name |-> "CodePipeline", category |-> "cicd", estimated_cost |-> 200])

\* Lab ids a caller may pass: the configured ones and one that is not.
LabIds == DOMAIN labs \cup {"invalid-lab-id"}
\* f"{lab_id}-{datetime.now().strftime('%Y%m%d-%H%M%S')}"
make_session_id(lab_id, now) == <<lab_id, now>>
\* Every session id: those start_lab can make, and one it never makes.
InvalidSessionId == <<"invalid-session-id", 0>>
SessionIds == (LabIds \X (0..MaxClock)) \cup {InvalidSessionId}
StepNames == {"setup_environment", "lab_complete"}
NotesArgs == {PyNone, Text(""), Text("note")}
ScriptOutcomes == {"missing", "exit0", "nonzero", "timeout", "raise"}
Counts == 0..MaxRes
Inventories == [cloudformation_stacks : Counts, ec2_instances : Counts, lambda_functions : Counts]
\* Session ids a caller passes: those of the file and one that is not in it.
SessionArgs == DOMAIN sessions_file.doc \cup {InvalidSessionId}
\* What the cleanup script does; it is not run for a session that is not found.
Scripts(session_id) ==
    IF session_id \in DOMAIN sessions_file.doc THEN ScriptOutcomes ELSE {"missing"}
\* The inventory AWS answers with; none is asked for without credentials,
\* without verification or for a session that is not found.
Answers(session_id, verify) ==
    IF session_id \in DOMAIN sessions_file.doc /\ verify /\ aws_available THEN Inventories
    ELSE {[cloudformation_stacks |-> 0, ec2_instances |-> 0, lambda_functions |-> 0]}

\* LabManager.resource_tags
resource_tags == [Project |-> "AWSDevOpsLabs", ManagedBy |-> "LabManager"]

\* ----------------------------------------------------------- start_lab
\* "Check if lab is already running"
already_running(sessions, lab_id) ==
    \E k \in DOMAIN sessions : sessions[k].lab_id = lab_id /\ sessions[k].status = "running"

\* The session dict start_lab creates.
new_session(lab_id, lab_info, session_id, now) ==
    [lab_id |-> lab_id,
     start_time |-> isoformat(datetime_now(now)),
     status |-> "running",
     resources |-> [cloudformation_stacks |-> <<>>, ec2_instances |-> <<>>,
                    lambda_functions |-> <<>>, s3_buckets |-> <<>>, iam_roles |-> <<>>],
     estimated_cost |-> lab_info.estimated_cost,
     actual_cost |-> 0,
     resource_tags |-> [Project |-> resource_tags.Project, ManagedBy |-> resource_tags.ManagedBy,
                        SessionId |-> session_id, LabId |-> lab_id],
     end_time |-> Absent,
     cleanup_time |-> Absent,
     cleanup_verified |-> Absent,
     completion_time |-> Absent,
     progress |-> Absent]

\* What a call leaves behind: its return value, the file, and whether (and
\* what) it saved.
Outcome(ret, file, wrote, map) == [ret |-> ret, file |-> file, wrote |-> wrote, map |-> map]
NoWrite(ret, file) == Outcome(ret, file, FALSE, EmptyMap)
Write(ret, sessions) == Outcome(ret, _save_sessions(sessions), TRUE, sessions)

\* sessions[session_id] = session
Put(sessions, session_id, session) ==
    [k \in DOMAIN sessions \cup {session_id} |-> IF k = session_id THEN session ELSE sessions[k]]

\* start_lab that returns True without writing the sessions file.
start_lab_body_unsaved(file, lab_id, now) ==
    IF lab_id \notin DOMAIN labs THEN NoWrite(PyBool(FALSE), file)
    ELSE IF already_running(_load_sessions(file), lab_id) THEN NoWrite(PyBool(FALSE), file)
    ELSE NoWrite(PyBool(TRUE), file)

\* start_lab that takes an unknown lab for one without metadata.
start_lab_body_any_lab(file, lab_id, now) ==
    LET sessions == _load_sessions(file)
        lab_info == IF lab_id \in DOMAIN labs THEN labs[lab_id]
                    ELSE [name |-> "", category |-> "unknown", estimated_cost |-> 0]
        session_id == make_session_id(lab_id, now)
    IN  IF already_running(sessions, lab_id) THEN NoWrite(PyBool(FALSE), file)
        ELSE Write(PyBool(TRUE),
                   Put(sessions, session_id, new_session(lab_id, lab_info, session_id, now)))

\* start_lab without the "check if lab is already running" loop.
start_lab_body_unchecked(file, lab_id, now) ==
    IF lab_id \notin DOMAIN labs THEN NoWrite(PyBool(FALSE), file)
    ELSE LET sessions == _load_sessions(file)
             session_id == make_session_id(lab_id, now)
         IN  Write(PyBool(TRUE),
                   Put(sessions, session_id, new_session(lab_id, labs[lab_id], session_id, now)))

\* LabManager.start_lab
start_lab_body(file, lab_id, now) ==
    IF lab_id \notin DOMAIN labs THEN NoWrite(PyBool(FALSE), file)
    ELSE LET sessions == _load_sessions(file) IN
         IF already_running(sessions, lab_id) THEN NoWrite(PyBool(FALSE), file)
         ELSE LET session_id == make_session_id(lab_id, now) IN
              Write(PyBool(TRUE),
                    Put(sessions, session_id, new_session(lab_id, labs[lab_id], session_id, now)))

\* ------------------------------------------------------------ stop_lab
\* stop_lab that stops every running session.
stop_lab_body_all(file, session_id, now) ==
    LET sessions == _load_sessions(file) IN
    IF session_id \notin DOMAIN sessions THEN NoWrite(PyBool(FALSE), file)
    ELSE IF sessions[session_id].status # "running" THEN NoWrite(PyBool(FALSE), file)
    ELSE Write(PyBool(TRUE),
               [k \in DOMAIN sessions |->
                    IF sessions[k].status = "running"
                    THEN [sessions[k] EXCEPT !.status = "stopped",
                                             !.end_time = isoformat(datetime_now(now))]
                    ELSE sessions[k]])

\* stop_lab that reports success for a session it does not find.
stop_lab_body_lenient(file, session_id, now) ==
    LET sessions == _load_sessions(file) IN
    IF session_id \notin DOMAIN sessions THEN NoWrite(PyBool(TRUE), file)
    ELSE LET session == sessions[session_id] IN
         IF session.status # "running" THEN NoWrite(PyBool(FALSE), file)
         ELSE Write(PyBool(TRUE),
                    Put(sessions, session_id,
                        [session EXCEPT !.status = "stopped",
                                        !.end_time = isoformat(datetime_now(now))]))

\* stop_lab without the test of the session's status.
stop_lab_body_any_status(file, session_id, now) ==
    LET sessions == _load_sessions(file) IN
    IF session_id \notin DOMAIN sessions THEN NoWrite(PyBool(FALSE), file)
    ELSE Write(PyBool(TRUE),
               Put(sessions, session_id,
                   [sessions[session_id] EXCEPT !.status = "stopped",
                                                !.end_time = isoformat(datetime_now(now))]))

\* LabManager.stop_lab
stop_lab_body(file, session_id, now) ==
    LET sessions == _load_sessions(file) IN
    IF session_id \notin DOMAIN sessions THEN NoWrite(PyBool(FALSE), file)
    ELSE LET session == sessions[session_id] IN
         IF session.status # "running" THEN NoWrite(PyBool(FALSE), file)
         ELSE Write(PyBool(TRUE),
                    Put(sessions, session_id,
                        [session EXCEPT !.status = "stopped",
                                        !.end_time = isoformat(datetime_now(now))]))

\* ----------------------------------------------------- cleanup_session
\* LabManager.get_resource_inventory for one session: {} without
\* credentials, otherwise what AWS answers (empty lists after a ClientError).
get_resource_inventory(aws, answer) ==
    IF ~aws
    THEN [empty |-> TRUE, cloudformation_stacks |-> 0, ec2_instances |-> 0, lambda_functions |-> 0]
    ELSE [empty |-> FALSE, cloudformation_stacks |-> answer.cloudformation_stacks,
          ec2_instances |-> answer.ec2_instances, lambda_functions |-> answer.lambda_functions]

\* cleanup_success after the "Run cleanup script if it exists" block.
script_success(script) ==
    CASE script = "missing" -> TRUE
      [] script = "exit0" -> TRUE
      [] script = "nonzero" -> FALSE
      [] script = "timeout" -> FALSE
      [] script = "raise" -> FALSE

remaining_resources(inventory) ==
    inventory.cloudformation_stacks + inventory.ec2_instances + inventory.lambda_functions

\* Verification that counts an empty inventory as remaining resources.
cleanup_success_strict(script, verify, aws, answer) ==
    IF verify /\ aws
    THEN IF remaining_resources(get_resource_inventory(aws, answer)) >= 0
         THEN FALSE
         ELSE script_success(script)
    ELSE script_success(script)

\* Verification whose verdict replaces that of the cleanup script.
cleanup_success_overwritten(script, verify, aws, answer) ==
    IF verify /\ aws
    THEN remaining_resources(get_resource_inventory(aws, answer)) = 0
    ELSE script_success(script)

\* cleanup_success after the "Verify cleanup if requested" block.
cleanup_success(script, verify, aws, answer) ==
    IF verify /\ aws
    THEN IF remaining_resources(get_resource_inventory(aws, answer)) > 0
         THEN FALSE
         ELSE script_success(script)
    ELSE script_success(script)

\* LabManager.cleanup_session
cleanup_session_body(file, session_id, verify, script, answer, aws, now) ==
    LET sessions == _load_sessions(file) IN
    IF session_id \notin DOMAIN sessions THEN NoWrite(PyBool(FALSE), file)
    ELSE LET session == sessions[session_id]
             ok == cleanup_success(script, verify, aws, answer)
         IN  Write(PyBool(ok),
                   Put(sessions, session_id,
                       [session EXCEPT !.status = IF ok THEN "cleaned_up" ELSE "cleanup_failed",
                                       !.cleanup_time = isoformat(datetime_now(now)),
                                       !.cleanup_verified = PyBool(verify /\ ok)]))

\* --------------------------------------------- update_session_progress
\* The progress dict created when a session has none.
initial_progress(now) ==
    [ty |-> "dict", steps |-> <<>>, current_step |-> PyNone,
     completion_percentage |-> Frac(0, 1), last_updated |-> isoformat(datetime_now(now))]

\* Index of the first step with that name, 0 when there is none.
find_step(steps, step_name) ==
    IF \E i \in DOMAIN steps : steps[i].name = step_name
    THEN CHOOSE i \in DOMAIN steps :
             /\ steps[i].name = step_name
             /\ \A j \in DOMAIN steps : steps[j].name = step_name => i <= j
    ELSE 0

\* A step is appended at every update, also when one has that name.
update_steps_appending(steps, step_name, completed, notes, now) ==
    Append(steps, [name |-> step_name,
                   completed |-> completed,
                   started_at |-> isoformat(datetime_now(now)),
                   completed_at |-> IF completed THEN isoformat(datetime_now(now)) ELSE PyNone,
                   notes |-> IF Truthy(notes) THEN notes ELSE Absent])

\* "Find or create the step"
update_steps(steps, step_name, completed, notes, now) ==
    LET i == find_step(steps, step_name)
        done_at == IF completed THEN isoformat(datetime_now(now)) ELSE PyNone
    IN  IF i # 0
        THEN [steps EXCEPT ![i] = [@ EXCEPT !.completed = completed,
                                            !.completed_at = done_at,
                                            !.notes = IF Truthy(notes) THEN notes ELSE @]]
        ELSE Append(steps, [name |-> step_name,
                            completed |-> completed,
                            started_at |-> isoformat(datetime_now(now)),
                            completed_at |-> done_at,
                            notes |-> IF Truthy(notes) THEN notes ELSE Absent])

\* "Find next incomplete step"
next_incomplete(steps) ==
    IF \E i \in DOMAIN steps : ~steps[i].completed
    THEN LET i == CHOOSE i \in DOMAIN steps :
                      /\ ~steps[i].completed
                      /\ \A j \in DOMAIN steps : ~steps[j].completed => i <= j
         IN  Text(steps[i].name)
    ELSE PyNone

\* "Calculate completion percentage"
completion_percentage(steps) ==
    LET completed_steps == Cardinality({i \in DOMAIN steps : steps[i].completed})
        total_steps == Len(steps)
    IN  IF total_steps > 0 THEN Frac(completed_steps * 100, total_steps) ELSE Frac(0, 1)

\* update_session_progress that makes the updated step the current one even
\* when it has just been completed.
update_progress_current_is_step(progress, step_name, completed, notes, now) ==
    LET steps == update_steps(progress.steps, step_name, completed, notes, now) IN
    [ty |-> "dict",
     steps |-> steps,
     current_step |-> Text(step_name),
     completion_percentage |-> completion_percentage(steps),
     last_updated |-> isoformat(datetime_now(now))]

\* The progress dict after one update_session_progress.
update_progress(progress, step_name, completed, notes, now) ==
    LET steps == update_steps(progress.steps, step_name, completed, notes, now) IN
    [ty |-> "dict",
     steps |-> steps,
     current_step |-> IF completed THEN next_incomplete(steps) ELSE Text(step_name),
     completion_percentage |-> completion_percentage(steps),
     last_updated |-> isoformat(datetime_now(now))]

\* LabManager.update_session_progress
update_session_progress_body(file, session_id, step_name, completed, notes, now) ==
    LET sessions == _load_sessions(file) IN
    IF session_id \notin DOMAIN sessions THEN NoWrite(PyBool(FALSE), file)
    ELSE LET session == sessions[session_id]
             progress == IF session.progress = Absent THEN initial_progress(now)
                         ELSE session.progress
         IN  Write(PyBool(TRUE),
                   Put(sessions, session_id,
                       [session EXCEPT !.progress =
                            update_progress(progress, step_name, completed, notes, now)]))

\* LabManager.get_session_progress
get_session_progress_body(file, session_id) ==
    LET sessions == _load_sessions(file) IN
    IF session_id \notin DOMAIN sessions THEN PyNone
    ELSE LET progress == sessions[session_id].progress IN
         IF progress = Absent
         THEN [ty |-> "dict", session_id |-> session_id, completion_percentage |-> Frac(0, 1),
               steps |-> <<>>, current_step |-> PyNone, last_updated |-> Absent]
         ELSE [ty |-> "dict", session_id |-> session_id,
               completion_percentage |-> progress.completion_percentage,
               steps |-> progress.steps, current_step |-> progress.current_step,
               last_updated |-> progress.last_updated]

\* ------------------------------------- checkpoints and lab completion
\* The inventory AWS answers with at a checkpoint: the stacks that
\* list_stacks returns and, among them, those whose status is
\* CREATE_COMPLETE or UPDATE_COMPLETE (the others are ROLLBACK_COMPLETE).
CheckpointInventories ==
    {a \in [cloudformation_stacks : Counts, ec2_instances : {0}, lambda_functions : {0},
            deployed_stacks : Counts] : a.deployed_stacks <= a.cloudformation_stacks}

\* 'cloudformation' in lab_id.lower(), for the lab ids of labs.yaml above
is_cloudformation_lab(lab_id) == lab_id = "iac-cloudformation"

\* LabManager._get_checkpoint_validations; none of the model's labs is an
\* EC2, deployment, Lambda or serverless lab.
_get_checkpoint_validations(lab_id, checkpoint_name) ==
    IF is_cloudformation_lab(lab_id) /\ checkpoint_name = "stack_deployed"
    THEN <<[type |-> "cloudformation_stack", expected_count |-> 1, status_filter |-> TRUE]>>
    ELSE IF is_cloudformation_lab(lab_id) /\ checkpoint_name = "nested_stacks"
    THEN <<[type |-> "cloudformation_stack", expected_count |-> 2, status_filter |-> TRUE]>>
    ELSE <<[type |-> "resource_count", expected_count |-> 1, status_filter |-> FALSE]>>

\* LabManager._perform_validation_check: the status of the check_result.
_perform_validation_check(validation, inventory) ==
    LET found == IF validation.type = "cloudformation_stack"
                 THEN inventory.deployed_stacks
                 ELSE remaining_resources(inventory)
    IN  IF found >= validation.expected_count THEN "passed" ELSE "failed"

\* The loop of validate_lab_checkpoint over the checkpoint validations.
checkpoint_valid(validations, inventory) ==
    \A i \in DOMAIN validations : _perform_validation_check(validations[i], inventory) # "failed"

\* f"Checkpoint validation passed at {datetime.now().isoformat()}"
checkpoint_notes(now) == PyStr([text |-> "Checkpoint validation passed at", t |-> now])

\* The statuses of validation_result['checks'].
checkpoint_checks(validations, inventory) ==
    [i \in DOMAIN validations |-> _perform_validation_check(validations[i], inventory)]

\* validate_lab_checkpoint that records the checkpoint whatever the result.
validate_lab_checkpoint_body_always_records(file, session_id, checkpoint_name, answer, aws, now) ==
    LET sessions == _load_sessions(file) IN
    IF session_id \notin DOMAIN sessions
    THEN NoWrite([valid |-> FALSE, checks |-> <<>>, error |-> "not found"], file)
    ELSE LET validations == _get_checkpoint_validations(sessions[session_id].lab_id,
                                                        checkpoint_name)
             inventory == get_resource_inventory(aws, answer)
                              @@ [deployed_stacks |-> answer.deployed_stacks]
             out == update_session_progress_body(file, session_id, checkpoint_name,
                                                 TRUE, checkpoint_notes(now), now)
         IN  Outcome([valid |-> IF aws THEN checkpoint_valid(validations, inventory) ELSE TRUE,
                      checks |-> IF aws THEN checkpoint_checks(validations, inventory) ELSE <<>>,
                      error |-> ""], out.file, out.wrote, out.map)

\* LabManager.validate_lab_checkpoint: ret.valid is validation_result['valid'],
\* ret.checks the statuses of validation_result['checks'].
validate_lab_checkpoint_body(file, session_id, checkpoint_name, answer, aws, now) ==
    LET sessions == _load_sessions(file) IN
    IF session_id \notin DOMAIN sessions
    THEN NoWrite([valid |-> FALSE, checks |-> <<>>, error |-> "not found"], file)
    ELSE LET validations == _get_checkpoint_validations(sessions[session_id].lab_id,
                                                        checkpoint_name)
             inventory == get_resource_inventory(aws, answer)
                              @@ [deployed_stacks |-> answer.deployed_stacks]
             valid == IF aws THEN checkpoint_valid(validations, inventory) ELSE TRUE
             checks == IF aws THEN checkpoint_checks(validations, inventory) ELSE <<>>
         IN  IF valid
             THEN LET out == update_session_progress_body(file, session_id, checkpoint_name,
                                                          TRUE, checkpoint_notes(now), now)
                  IN  Outcome([valid |-> TRUE, checks |-> checks, error |-> ""],
                              out.file, out.wrote, out.map)
             ELSE NoWrite([valid |-> FALSE, checks |-> checks, error |-> ""], file)

\* completion_percentage >= 100.0
at_least_100(p) == p.num >= 100 * p.den

\* LabManager.verify_lab_completion: ret.completed is
\* completion_result['completed'], ret.final_valid is final_validation['valid'];
\* the sessions it saves are those it loaded when it began.
verify_lab_completion_body(file, session_id, answer, aws, now) ==
    LET sessions == _load_sessions(file) IN
    IF session_id \notin DOMAIN sessions
    THEN NoWrite([completed |-> FALSE, final_valid |-> FALSE, error |-> "not found"], file)
    ELSE LET session == sessions[session_id]
             completed == session.progress # Absent
                          /\ at_least_100(session.progress.completion_percentage)
             final == validate_lab_checkpoint_body(file, session_id, "lab_complete", answer,
                                                   aws, now)
             ret == [completed |-> completed, final_valid |-> final.ret.valid, error |-> ""]
         IN  IF completed /\ session.status # "completed"
             THEN Write(ret, Put(sessions, session_id,
                                 [session EXCEPT !.status = "completed",
                                     !.completion_time = isoformat(datetime_now(now))]))
             ELSE Outcome(ret, final.file, final.wrote, final.map)

\* LabManager.get_certification_progress
get_certification_progress_body(file) ==
    LET sessions == _load_sessions(file)
        done == {k \in DOMAIN sessions : sessions[k].status = "completed"}
        categories == {labs[l].category : l \in DOMAIN labs}
    IN  [total_labs |-> Cardinality(DOMAIN labs),
         completed_labs |-> Cardinality(done),
         categories |-> [c \in categories |->
             [total |-> Cardinality({l \in DOMAIN labs : labs[l].category = c}),
              completed |-> Cardinality({k \in done :
                               sessions[k].lab_id \in DOMAIN labs
                               /\ labs[sessions[k].lab_id].category = c})]],
         completion_percentage |-> Frac(Cardinality(done) * 100, Cardinality(DOMAIN labs))]

\* ------------------------------------------------- LabManager actions
\* No command is being run.
NoCall ==
    [op |-> "idle", lab_id |-> "", session_id |-> <<"", 0>>, step_name |-> "",
     completed |-> FALSE, notes |-> PyNone, verify |-> FALSE, script |-> "",
     remaining |-> 0, now |-> 0, ret |-> PyNone]

\* One command: the file, the record of the call and of the file before it.
Effect(c, out) ==
    /\ call = NoCall
    /\ out.wrote => writes < MaxWrites
    /\ writes' = IF out.wrote THEN writes + 1 ELSE writes
    /\ sessions_file' = out.file
    /\ call' = [c EXCEPT !.ret = out.ret, !.now = clock]
    /\ before' = sessions_file
    /\ saved' = IF out.wrote THEN out.map ELSE saved
    /\ used' = IF c.op = "start_lab" /\ out.wrote
               THEN [used EXCEPT ![make_session_id(c.lab_id, clock)] = {}]
               ELSE IF c.op = "update_session_progress" /\ out.wrote
               THEN [used EXCEPT ![c.session_id] = @ \cup {c.step_name}]
               ELSE IF c.op = "validate_lab_checkpoint" /\ out.wrote
               THEN [used EXCEPT ![c.session_id] = @ \cup {c.step_name}]
               ELSE IF c.op = "verify_lab_completion" /\ out.wrote /\ out.ret.final_valid
               THEN [used EXCEPT ![c.session_id] = @ \cup {"lab_complete"}]
               ELSE used
    /\ UNCHANGED <<clock, aws_available>>

\* The model keeps at most MaxSessions records in the file.
Room(lab_id) ==
    \/ make_session_id(lab_id, clock) \in DOMAIN sessions_file.doc
    \/ Cardinality(DOMAIN sessions_file.doc) < MaxSessions

start_lab(lab_id) ==
    /\ Room(lab_id)
    /\ Effect([NoCall EXCEPT !.op = "start_lab", !.lab_id = lab_id],
              start_lab_body(sessions_file, lab_id, clock))
    /\ UNCHANGED <<val_vars, tool_vars, extra_vars>>

stop_lab(session_id) ==
    /\ Effect([NoCall EXCEPT !.op = "stop_lab", !.session_id = session_id],
              stop_lab_body(sessions_file, session_id, clock))
    /\ UNCHANGED <<val_vars, tool_vars, extra_vars>>

cleanup_session(session_id, verify, script, answer) ==
    /\ Effect([NoCall EXCEPT !.op = "cleanup_session", !.session_id = session_id,
                             !.verify = verify, !.script = script,
                             !.remaining = IF verify /\ aws_available
                                           THEN remaining_resources(answer) ELSE 0],
              cleanup_session_body(sessions_file, session_id, verify, script, answer,
                                   aws_available, clock))
    /\ UNCHANGED <<val_vars, tool_vars, extra_vars>>

update_session_progress(session_id, step_name, completed, notes) ==
    /\ Effect([NoCall EXCEPT !.op = "update_session_progress", !.session_id = session_id,
                             !.step_name = step_name, !.completed = completed,
                             !.notes = notes],
              update_session_progress_body(sessions_file, session_id, step_name,
                                           completed, notes, clock))
    /\ UNCHANGED <<val_vars, tool_vars, extra_vars>>

get_session_progress(session_id) ==
    /\ Effect([NoCall EXCEPT !.op = "get_session_progress", !.session_id = session_id],
              NoWrite(get_session_progress_body(sessions_file, session_id), sessions_file))
    /\ UNCHANGED <<val_vars, tool_vars, extra_vars>>

\* The inventory asked for at the final checkpoint: only with credentials
\* and for a session of the file.
CheckpointAnswers(session_id) ==
    IF session_id \in DOMAIN sessions_file.doc /\ aws_available THEN CheckpointInventories
    ELSE {[cloudformation_stacks |-> 0, ec2_instances |-> 0, lambda_functions |-> 0,
           deployed_stacks |-> 0]}

validate_lab_checkpoint(session_id, checkpoint_name, answer) ==
    /\ Effect([NoCall EXCEPT !.op = "validate_lab_checkpoint", !.session_id = session_id,
                             !.step_name = checkpoint_name],
              validate_lab_checkpoint_body(sessions_file, session_id, checkpoint_name, answer,
                                           aws_available, clock))
    /\ UNCHANGED <<val_vars, tool_vars, extra_vars>>

verify_lab_completion(session_id, answer) ==
    /\ Effect([NoCall EXCEPT !.op = "verify_lab_completion", !.session_id = session_id,
                             !.remaining = IF aws_available THEN remaining_resources(answer)
                                           ELSE 0],
              verify_lab_completion_body(sessions_file, session_id, answer, aws_available,
                                         clock))
    /\ UNCHANGED <<val_vars, tool_vars, extra_vars>>

get_certification_progress ==
    /\ Effect([NoCall EXCEPT !.op = "get_certification_progress"],
              NoWrite(get_certification_progress_body(sessions_file), sessions_file))
    /\ UNCHANGED <<val_vars, tool_vars, extra_vars>>

\* main(): the command has printed its result and its process ends.
main_exit ==
    /\ call # NoCall
    /\ call' = NoCall
    /\ before' = sessions_file
    /\ UNCHANGED <<sessions_file, clock, aws_available, saved, writes, used>>
    /\ UNCHANGED <<val_vars, tool_vars, extra_vars>>

\* A second of wall-clock time passes between two commands.
Tick ==
    /\ call = NoCall
    /\ clock < MaxClock
    /\ clock' = clock + 1
    /\ UNCHANGED <<sessions_file, aws_available, call, before, saved, writes, used>>
    /\ UNCHANGED <<val_vars, tool_vars, extra_vars>>

\* ------------------------------------------------------- LabValidator
\* The AWS account as one LabValidator run sees it (variable account).
\* Session the validator is asked about.
ValSessionId == "iac-cloudformation-20250101-000000"
StackStatuses == {"CREATE_COMPLETE", "UPDATE_IN_PROGRESS"}
\* str.endswith("_COMPLETE") on the stack statuses above.
ends_with_COMPLETE(status) == status \in {"CREATE_COMPLETE", "UPDATE_COMPLETE", "ROLLBACK_COMPLETE"}

\* LabValidator._get_default_config
default_config ==
    [enabled |-> {"cloudformation", "ec2", "lambda", "s3", "iam", "cost"},
     required_tags |-> <<"Project", "SessionId", "LabName">>,
     check_drift |-> TRUE,
     max_hourly_cost |-> 1000,
     alert_threshold_pct |-> 80]

\* A fresh check_result.
new_check == [status |-> "passed", issues |-> <<>>]
add_issue(r, status, issue) == [status |-> status, issues |-> Append(r.issues, issue)]

\* LabValidator._get_session_stacks: the stacks tagged with the session; a
\* ClientError of list_stacks gives [].
_get_session_stacks(world, session_id) ==
    IF world.list_stacks_error THEN <<>>
    ELSE SelectSeq(world.stacks, LAMBDA st : st.SessionId = session_id)

\* "Check required tags" for one stack.
RECURSIVE check_required_tags(_, _, _, _, _)
check_required_tags(stack, n, required_tags, j, r) ==
    IF j > Len(required_tags) THEN r
    ELSE check_required_tags(stack, n, required_tags, j + 1,
             IF required_tags[j] \notin stack.Tags
             THEN add_issue(r, "warning", [kind |-> "missing required tag", stack |-> n, tag |-> required_tags[j]])
             ELSE r)

\* The body of the loop over the session's stacks.
check_stack(stack, n, cfg, r) ==
    LET r1 == IF ~ends_with_COMPLETE(stack.StackStatus)
              THEN add_issue(r, "failed", [kind |-> "status", stack |-> n, tag |-> ""])
              ELSE r
        r2 == check_required_tags(stack, n, cfg.required_tags, 1, r1)
    IN  IF cfg.check_drift /\ stack.drift = "DRIFTED"
        THEN add_issue(r2, "warning", [kind |-> "configuration drift", stack |-> n, tag |-> ""])
        ELSE r2

RECURSIVE check_stacks(_, _, _, _)
check_stacks(stacks, n, cfg, r) ==
    IF n > Len(stacks) THEN r
    ELSE check_stacks(stacks, n + 1, cfg, check_stack(stacks[n], n, cfg, r))

\* LabValidator._validate_cloudformation_resources: the check_result it stores.
_validate_cloudformation_resources(world, session_id, cfg) ==
    check_stacks(_get_session_stacks(world, session_id), 1, cfg, new_check)

\* The EC2, Lambda, S3 and IAM checks: one issue and status 'warning' per
\* finding of their loops; their helpers swallow every ClientError.
RECURSIVE warn_each(_, _, _)
warn_each(kind, n, r) ==
    IF n = 0 THEN r
    ELSE warn_each(kind, n - 1, add_issue(r, "warning", [kind |-> kind, stack |-> n, tag |-> ""]))

_validate_ec2_resources(world) == warn_each("ec2", world.ec2_findings, new_check)
_validate_lambda_resources(world) == warn_each("lambda", world.lambda_findings, new_check)
_validate_s3_resources(world) == warn_each("s3", world.s3_findings, new_check)
_validate_iam_resources(world) == warn_each("iam", world.iam_findings, new_check)

\* LabValidator._validate_costs (cents per hour; -1: the estimate raised)
_validate_costs(world, cfg) ==
    IF world.estimated_cost < 0
    THEN add_issue(new_check, "error", [kind |-> "Cost validation error", stack |-> 0, tag |-> ""])
    ELSE IF world.estimated_cost > cfg.max_hourly_cost
    THEN add_issue(new_check, "failed", [kind |-> "exceeds limit", stack |-> 0, tag |-> ""])
    ELSE IF world.estimated_cost * 100 > cfg.max_hourly_cost * cfg.alert_threshold_pct
    THEN add_issue(new_check, "warning", [kind |-> "approaching limit", stack |-> 0, tag |-> ""])
    ELSE new_check

\* LabValidator._count_session_resources
_count_session_resources(world, session_id) ==
    Len(_get_session_stacks(world, session_id)) + world.other_resources

\* LabValidator._validate_completion_criteria
_validate_completion_criteria(world, session_id) ==
    IF world.completion_raises
    THEN add_issue(new_check, "error", [kind |-> "Completion criteria validation error", stack |-> 0, tag |-> ""])
    ELSE LET r1 == IF world.criteria_missing
                   THEN add_issue(new_check, "failed", [kind |-> "Required resource type not found", stack |-> 0, tag |-> ""])
                   ELSE new_check
         IN  IF _count_session_resources(world, session_id) = 0
             THEN add_issue(r1, "failed", [kind |-> "No resources found for this session", stack |-> 0, tag |-> ""])
             ELSE r1

\* Order in which validate_lab_session fills validation_results["checks"].
CheckOrder == <<"cloudformation", "ec2", "lambda", "s3", "iam", "cost", "completion">>

run_check(name, world, session_id, cfg) ==
    CASE name = "cloudformation" -> _validate_cloudformation_resources(world, session_id, cfg)
      [] name = "ec2" -> _validate_ec2_resources(world)
      [] name = "lambda" -> _validate_lambda_resources(world)
      [] name = "s3" -> _validate_s3_resources(world)
      [] name = "iam" -> _validate_iam_resources(world)
      [] name = "cost" -> _validate_costs(world, cfg)
      [] name = "completion" -> _validate_completion_criteria(world, session_id)

\* any(check.get("status") == status for check in checks.values())
has_status(checks, status) == \E name \in DOMAIN checks : checks[name].status = status

\* A failed check is looked for before a check in error.
overall_status_of_failed_first(checks) ==
    IF has_status(checks, "failed") THEN "failed"
    ELSE IF has_status(checks, "error") THEN "error"
    ELSE IF has_status(checks, "warning") THEN "warning"
    ELSE "passed"

\* The overall_status _determine_overall_status assigns.
overall_status_of(checks) ==
    IF has_status(checks, "error") THEN "error"
    ELSE IF has_status(checks, "failed") THEN "failed"
    ELSE IF has_status(checks, "warning") THEN "warning"
    ELSE "passed"

\* "Collect all issues": the issues of the checks with the given statuses,
\* in the order of the checks.
RECURSIVE collect_issues(_, _, _)
collect_issues(checks, n, statuses) ==
    IF n > Len(CheckOrder) THEN <<>>
    ELSE LET name == CheckOrder[n]
             rest == collect_issues(checks, n + 1, statuses)
         IN  IF name \in DOMAIN checks /\ checks[name].status \in statuses
             THEN [i \in DOMAIN checks[name].issues |->
                        [check |-> name, issue |-> checks[name].issues[i]]] \o rest
             ELSE rest

\* LabValidator._determine_overall_status
_determine_overall_status(results) ==
    [results EXCEPT !.overall_status = overall_status_of(results.checks),
                    !.errors = @ \o collect_issues(results.checks, 1, {"error", "failed"}),
                    !.warnings = @ \o collect_issues(results.checks, 1, {"warning"})]

\* An entry of the errors list that is a plain message.
Message(text) == [check |-> "", issue |-> [kind |-> text, stack |-> 0, tag |-> ""]]

\* LabValidator._create_error_result
_create_error_result(error_message, now) ==
    [timestamp |-> isoformat(datetime_now(now)),
     session_id |-> Absent,
     overall_status |-> "error",
     checks |-> EmptyMap,
     errors |-> <<Message(error_message)>>,
     warnings |-> <<>>,
     recommendations |-> <<>>]

\* The checks validate_lab_session runs: the enabled health checks, the cost
\* validation when enabled, and always the completion criteria.
checks_to_run(cfg) == cfg.enabled \cup {"completion"}

\* LabValidator.validate_lab_session: the results dict after the run.
run_validation(world, session_id, cfg, now) ==
    _determine_overall_status(
        [timestamp |-> isoformat(datetime_now(now)),
         session_id |-> Text(session_id),
         overall_status |-> "unknown",
         checks |-> [name \in checks_to_run(cfg) |-> run_check(name, world, session_id, cfg)],
         errors |-> <<>>,
         warnings |-> <<>>,
         recommendations |-> <<>>])

\* validate_lab_session that does not look at aws_available.
validate_lab_session_body_unguarded(results, available, world, session_id, cfg, now) ==
    LET r == run_validation(world, session_id, cfg, now) IN
    [ret |-> r, results |-> r, ran |-> checks_to_run(cfg)]

\* LabValidator.validate_lab_session: what it returns, the instance's
\* validation_results afterwards, and the checks it ran.
validate_lab_session_body(results, available, world, session_id, cfg, now) ==
    IF ~available
    THEN [ret |-> _create_error_result("AWS credentials not available", now),
          results |-> results, ran |-> {}]
    ELSE LET r == run_validation(world, session_id, cfg, now) IN
         [ret |-> r, results |-> r, ran |-> checks_to_run(cfg)]

\* The account's stacks: those tagged with the session under validation, in
\* every combination of status, other tags and drift, one of another
\* session, one without tags and one with the Project tag alone.
StackChoices ==
    { [SessionId |-> ValSessionId, StackStatus |-> st, Tags |-> {"SessionId"} \cup tags, drift |-> d] :
          st \in StackStatuses, tags \in SUBSET {"Project", "LabName"}, d \in {"DRIFTED", "IN_SYNC"} }
    \cup { [SessionId |-> "cicd-codepipeline-20250101-000000", StackStatus |-> "CREATE_COMPLETE",
            Tags |-> {"Project", "SessionId", "LabName"}, drift |-> "IN_SYNC"],
           [SessionId |-> "", StackStatus |-> "CREATE_COMPLETE", Tags |-> {}, drift |-> "IN_SYNC"],
           [SessionId |-> "", StackStatus |-> "CREATE_COMPLETE", Tags |-> {"Project"},
            drift |-> "IN_SYNC"] }

StackLists == UNION { [1..n -> StackChoices] : n \in 0..MaxStacks }

\* What the other checks find: nothing, or one deviation.
Clean ==
    [ec2_findings |-> 0, lambda_findings |-> 0, s3_findings |-> 0, iam_findings |-> 0,
     estimated_cost |-> 50, other_resources |-> 1, criteria_missing |-> FALSE,
     completion_raises |-> FALSE]

Findings ==
    { Clean,
      [Clean EXCEPT !.ec2_findings = 1], [Clean EXCEPT !.lambda_findings = 1],
      [Clean EXCEPT !.s3_findings = 1], [Clean EXCEPT !.iam_findings = 1],
      [Clean EXCEPT !.estimated_cost = 900], [Clean EXCEPT !.estimated_cost = 1100],
      [Clean EXCEPT !.estimated_cost = -1], [Clean EXCEPT !.other_resources = 0],
      [Clean EXCEPT !.criteria_missing = TRUE], [Clean EXCEPT !.completion_raises = TRUE] }

World(f, stacks, err) ==
    [ec2_findings |-> f.ec2_findings, lambda_findings |-> f.lambda_findings,
     s3_findings |-> f.s3_findings, iam_findings |-> f.iam_findings,
     estimated_cost |-> f.estimated_cost, other_resources |-> f.other_resources,
     criteria_missing |-> f.criteria_missing, completion_raises |-> f.completion_raises,
     stacks |-> stacks, list_stacks_error |-> err]

Worlds ==
    { World(f, stacks, FALSE) : f \in Findings, stacks \in StackLists }
    \cup { World(f, <<>>, TRUE) : f \in Findings }

Configs ==
    { default_config,
      [default_config EXCEPT !.enabled = {"cloudformation", "cost"}, !.check_drift = FALSE] }

\* LabValidator.__init__: validation_results before any run.
initial_results ==
    [timestamp |-> isoformat(datetime_now(0)), session_id |-> Absent,
     overall_status |-> "unknown", checks |-> EmptyMap,
     errors |-> <<>>, warnings |-> <<>>, recommendations |-> <<>>]

NoValCall == [op |-> "__init__", session_id |-> "", ret |-> initial_results, ran |-> {}]

validate_lab_session(session_id) ==
    LET out == validate_lab_session_body(validation_results, v_aws_available, account,
                                         session_id, config, clock)
    IN  /\ validation_results' = out.results
        /\ v_call' = [op |-> "validate_lab_session", session_id |-> session_id,
                      ret |-> out.ret, ran |-> out.ran]
        /\ UNCHANGED <<account, config, v_aws_available>>
        /\ UNCHANGED <<mgr_vars, tool_vars, extra_vars>>

\* ------------------------------------------- CloudFormationValidator
\* The keys of the template's Resources, in the order of the file.
ResourceNames == <<"ResourceA", "ResourceB", "ResourceC">>
resource_names == {ResourceNames[i] : i \in DOMAIN ResourceNames}

\* A DependsOn attribute with n entries: absent, one name, or a list of names
\* (of resources of the template or of a resource that is not in it).
DependsOnChoices(n) ==
    IF n = 0 THEN {Absent}
    ELSE {[ty |-> "list", items |-> l] : l \in [1..n -> resource_names \cup {"MissingResource"}]}
         \cup (IF n = 1 THEN {[ty |-> "str", name |-> t] : t \in resource_names \cup {"MissingResource"}}
               ELSE {})

\* A value inside Properties: {"Ref": target} or {"Fn::GetAtt": [target, "Arn"]};
\* a Ref may name a template parameter.
PropertyValues ==
    {[fn |-> "Ref", target |-> t] : t \in resource_names \cup {"EnvironmentName"}}
    \cup {[fn |-> "Fn::GetAtt", target |-> t] : t \in resource_names}

\* The resource configurations with n dependency entries in all.
ResourceConfigs(n) ==
    UNION { {[DependsOn |-> d, Properties |-> pr] :
                d \in DependsOnChoices(j), pr \in [1..(n - j) -> PropertyValues]} : j \in 0..n }

\* "Explicit DependsOn": a str is one dependency, a list is extended.
explicit_dependencies(resource_config) ==
    IF resource_config.DependsOn = Absent THEN <<>>
    ELSE IF resource_config.DependsOn.ty = "str" THEN <<resource_config.DependsOn.name>>
    ELSE resource_config.DependsOn.items

\* CloudFormationValidator._find_implicit_dependencies over the values of Properties
RECURSIVE _find_implicit_dependencies(_, _)
_find_implicit_dependencies(obj, names) ==
    IF obj = <<>> THEN <<>>
    ELSE (IF Head(obj).target \in names THEN <<Head(obj).target>> ELSE <<>>)
         \o _find_implicit_dependencies(Tail(obj), names)

\* "Build dependency graph"
build_dependencies(resources) ==
    [resource_name \in DOMAIN resources |->
        explicit_dependencies(resources[resource_name])
        \o _find_implicit_dependencies(resources[resource_name].Properties, DOMAIN resources)]

\* has_cycle(node, visited, rec_stack): st holds visited, rec_stack and the
\* value returned; has_cycle_from is its loop over the neighbors from the i-th.
RECURSIVE has_cycle(_, _, _)
RECURSIVE has_cycle_from(_, _, _, _)
has_cycle_from(dependencies, node, i, st) ==
    IF i > Len(dependencies[node])
    THEN [st EXCEPT !.rec_stack = @ \ {node}, !.ret = FALSE]
    ELSE LET neighbor == dependencies[node][i] IN
         IF neighbor \notin DOMAIN dependencies
         THEN has_cycle_from(dependencies, node, i + 1, st)
         ELSE IF neighbor \notin st.visited
         THEN LET deeper == has_cycle(dependencies, neighbor, st) IN
              IF deeper.ret THEN deeper
              ELSE has_cycle_from(dependencies, node, i + 1, deeper)
         ELSE IF neighbor \in st.rec_stack
         THEN [st EXCEPT !.ret = TRUE]
         ELSE has_cycle_from(dependencies, node, i + 1, st)

has_cycle(dependencies, node, st) ==
    has_cycle_from(dependencies, node, 1,
                   [st EXCEPT !.visited = @ \cup {node}, !.rec_stack = @ \cup {node}])

\* The loop of _detect_circular_dependencies over the nodes from the n-th.
RECURSIVE detect_from(_, _, _, _)
detect_from(dependencies, n, st, circular_deps) ==
    IF n > Len(ResourceNames) THEN circular_deps
    ELSE LET node == ResourceNames[n] IN
         IF node \in st.visited
         THEN detect_from(dependencies, n + 1, st, circular_deps)
         ELSE LET s2 == has_cycle(dependencies, node, st) IN
              detect_from(dependencies, n + 1, s2,
                          IF s2.ret THEN Append(circular_deps, node) ELSE circular_deps)

NoVisits == [visited |-> {}, rec_stack |-> {}, ret |-> FALSE]

\* Only the first resource is taken as a start of the search.
_detect_circular_dependencies_first_only(dependencies) ==
    IF has_cycle(dependencies, ResourceNames[1], NoVisits).ret
    THEN <<ResourceNames[1]>> ELSE <<>>

\* CloudFormationValidator._detect_circular_dependencies
_detect_circular_dependencies(dependencies) ==
    detect_from(dependencies, 1, NoVisits, <<>>)

\* CloudFormationValidator.validate_dependencies: the dict it returns.
validate_dependencies_body(template_dict) ==
    LET dependencies == build_dependencies(template_dict.Resources)
        circular_deps == _detect_circular_dependencies(dependencies)
    IN  [valid |-> Len(circular_deps) = 0,
         dependencies |-> dependencies,
         circular_dependencies |-> circular_deps]

NoDependencyCall == [op |-> "idle", ret |-> [valid |-> TRUE, dependencies |-> <<>>,
                                             circular_dependencies |-> <<>>]]

validate_dependencies ==
    /\ dependency_call = NoDependencyCall
    /\ dependency_call' = [op |-> "validate_dependencies",
                           ret |-> validate_dependencies_body(template)]
    /\ UNCHANGED <<template, pricing_call, config_service, executions, rem_call>>
    /\ UNCHANGED <<mgr_vars, val_vars, extra_vars>>

\* ------------------------------------------------- SimplePricingHelper
\* Floats are kept as exact fractions (Frac); amounts are in dollars.
LCM(a, b) == (a \div GCD(a, b)) * b
Rat(n) == Frac(n, 1)
RatAdd(x, y) ==
    LET l == LCM(x.den, y.den) IN Frac(x.num * (l \div x.den) + y.num * (l \div y.den), l)
RatSub(x, y) ==
    LET l == LCM(x.den, y.den) IN Frac(x.num * (l \div x.den) - y.num * (l \div y.den), l)
RatMul(x, y) ==
    LET g1 == GCD(x.num, y.den)
        g2 == GCD(y.num, x.den)
    IN  IF x.num = 0 \/ y.num = 0 THEN Rat(0)
        ELSE Frac((x.num \div g1) * (y.num \div g2), (x.den \div g2) * (y.den \div g1))
RatLeq(x, y) ==
    LET l == LCM(x.den, y.den) IN x.num * (l \div x.den) <= y.num * (l \div y.den)
RatMin(x, y) == IF RatLeq(x, y) THEN x ELSE y
RatMax(x, y) == IF RatLeq(x, y) THEN y ELSE x
\* int(x) of a non-negative float
py_int(x) == x.num \div x.den
\* round(x, 4): to the nearest multiple of 0.0001, a tie to the even one
round4(x) ==
    LET y == RatMul(Rat(10000), x)
        q == y.num \div y.den
        r == y.num % y.den
        n == IF 2 * r > y.den \/ (2 * r = y.den /\ q % 2 = 1) THEN q + 1 ELSE q
    IN  Frac(n, 10000)

\* SimplePricingHelper.FREE_TIER_LIMITS
FREE_TIER_LIMITS == [EC2 |-> Rat(750), S3 |-> Rat(5), Lambda |-> Rat(1000000), CodeBuild |-> Rat(100)]
\* SimplePricingHelper.FALLBACK_PRICING
FALLBACK_PRICING ==
    [EC2 |-> Frac(104, 10000), S3 |-> Frac(23, 1000), Lambda |-> Frac(2, 10000000),
     CodeBuild |-> Frac(5, 1000), RDS |-> Frac(17, 1000), CloudWatch |-> Frac(30, 100)]

\* str.upper() on the service names the model passes.
upper(service) ==
    CASE service = "ec2" -> "EC2"
      [] service = "S3" -> "S3"
      [] service = "Lambda" -> "LAMBDA"
      [] service = "codebuild" -> "CODEBUILD"
      [] service = "RDS" -> "RDS"
      [] service = "CloudWatch" -> "CLOUDWATCH"
      [] service = "DynamoDB" -> "DYNAMODB"

\* The EC2 branch: free_cost + overage_cost and standard_cost.
ec2_cost(duration_hours) ==
    LET hours_used == duration_hours
        overage_hours == RatMax(Rat(0), RatSub(hours_used, FREE_TIER_LIMITS.EC2))
    IN  [free_cost |-> RatAdd(Rat(0), RatMul(overage_hours, FALLBACK_PRICING.EC2)),
         standard_cost |-> RatMul(hours_used, FALLBACK_PRICING.EC2)]

\* The S3 branch with the operands of the overage swapped.
s3_cost_swapped(duration_hours) ==
    LET storage_gb == Rat(1)
        overage_gb == RatMax(Rat(0), RatSub(FREE_TIER_LIMITS.S3, storage_gb))
        months == RatMul(duration_hours, Frac(1, 720))
    IN  [free_cost |-> RatMul(RatMul(overage_gb, FALLBACK_PRICING.S3), months),
         standard_cost |-> RatMul(RatMul(storage_gb, FALLBACK_PRICING.S3), months)]

\* The S3 branch: 1 GB for duration_hours / 24 / 30 months.
s3_cost(duration_hours) ==
    LET storage_gb == Rat(1)
        overage_gb == RatMax(Rat(0), RatSub(storage_gb, FREE_TIER_LIMITS.S3))
        months == RatMul(duration_hours, Frac(1, 720))
    IN  [free_cost |-> RatMul(RatMul(overage_gb, FALLBACK_PRICING.S3), months),
         standard_cost |-> RatMul(RatMul(storage_gb, FALLBACK_PRICING.S3), months)]

\* The Lambda branch: int(10000 * duration_hours) requests.
lambda_cost(duration_hours) ==
    LET requests == Rat(py_int(RatMul(Rat(10000), duration_hours)))
        overage_requests == RatMax(Rat(0), RatSub(requests, FREE_TIER_LIMITS.Lambda))
    IN  [free_cost |-> RatMul(overage_requests, FALLBACK_PRICING.Lambda),
         standard_cost |-> RatMul(requests, FALLBACK_PRICING.Lambda)]

\* The CodeBuild branch: 30 build minutes.
codebuild_cost ==
    LET build_minutes == Rat(30)
        overage_minutes == RatMax(Rat(0), RatSub(build_minutes, FREE_TIER_LIMITS.CodeBuild))
    IN  [free_cost |-> RatMul(overage_minutes, FALLBACK_PRICING.CodeBuild),
         standard_cost |-> RatMul(build_minutes, FALLBACK_PRICING.CodeBuild)]

\* One pass of the loop over services: the breakdown entry, if any.
service_cost(service, duration_hours) ==
    LET service_upper == upper(service) IN
    CASE service_upper = "EC2" -> ec2_cost(duration_hours)
      [] service_upper = "S3" -> s3_cost(duration_hours)
      [] service_upper = "LAMBDA" -> lambda_cost(duration_hours)
      [] service_upper = "CODEBUILD" -> codebuild_cost
      [] OTHER ->
           IF service_upper \in DOMAIN FALLBACK_PRICING
           THEN LET cost == RatMul(duration_hours, FALLBACK_PRICING[service_upper]) IN
                [free_cost |-> cost, standard_cost |-> cost]
           ELSE Absent

RECURSIVE estimate_loop(_, _, _, _)
estimate_loop(services, i, duration_hours, result) ==
    IF i > Len(services) THEN result
    ELSE LET c == service_cost(services[i], duration_hours) IN
         estimate_loop(services, i + 1, duration_hours,
             IF c = Absent THEN result
             ELSE [result EXCEPT
                     !.breakdown = [k \in DOMAIN @ \cup {services[i]} |->
                                       IF k = services[i] THEN c ELSE @[k]],
                     !.free_tier_cost = RatAdd(@, c.free_cost),
                     !.standard_cost = RatAdd(@, c.standard_cost)])

\* SimplePricingHelper.estimate_lab_cost
estimate_lab_cost_body(services, duration_hours) ==
    LET result == estimate_loop(services, 1, duration_hours,
                      [duration_hours |-> duration_hours, services |-> services,
                       free_tier_cost |-> Rat(0), standard_cost |-> Rat(0),
                       potential_savings |-> Rat(0), free_tier_eligible |-> TRUE,
                       breakdown |-> EmptyMap])
    IN  [result EXCEPT
            !.potential_savings = round4(RatSub(result.standard_cost, result.free_tier_cost)),
            !.free_tier_cost = round4(@),
            !.standard_cost = round4(@)]

\* The services and durations (in hours) the model passes.
Services == {"ec2", "S3", "Lambda", "codebuild", "RDS", "CloudWatch", "DynamoDB"}
ServiceLists == UNION {[1..n -> Services] : n \in 0..MaxServices}
Durations == {Rat(0), Frac(1, 2), Rat(2), Rat(101), Rat(751)}

NoPricingCall == [op |-> "idle", ret |-> Absent]

estimate_lab_cost(services, duration_hours) ==
    /\ pricing_call = NoPricingCall
    /\ pricing_call' = [op |-> "estimate_lab_cost",
                        ret |-> estimate_lab_cost_body(services, duration_hours)]
    /\ UNCHANGED <<template, dependency_call, config_service, executions, rem_call>>
    /\ UNCHANGED <<mgr_vars, val_vars, extra_vars>>

\* ------------------------------------- remediate-compliance-violations
\* AWS Config as the script sees it (variable config_service): the
\* non-compliant rules, the remediation configuration of each rule (None when
\* it has none), its non-compliant resources, and what
\* start_remediation_execution does for each resource.
RuleNames == <<"s3-bucket-public-read-prohibited", "encrypted-volumes">>
RuleSet == {RuleNames[i] : i \in DOMAIN RuleNames}
ResourceIds == {"lab-bucket", "vol-0abc"}
resource_type_of(resource_id) ==
    IF resource_id = "lab-bucket" THEN "AWS::S3::Bucket" ELSE "AWS::EC2::Volume"
NonCompliant(resource_id) == [ResourceId |-> resource_id, ResourceType |-> resource_type_of(resource_id)]
ResourceLists ==
    {<<>>} \cup {<<NonCompliant(a)>> : a \in ResourceIds}
    \cup {l \in {<<NonCompliant(a), NonCompliant(b)>> : a \in ResourceIds, b \in ResourceIds} :
              l[1] # l[2]}
StartOutcomes == {"started", "FailedItems", "raises"}

\* A remediation configuration: an SSM document and its parameters, one
\* taken from the resource and one static.
remediation_configuration ==
    [ty |-> "dict", TargetId |-> "AWS-DisableS3BucketPublicReadWrite", TargetType |-> "SSM_DOCUMENT",
     Parameters |-> [S3BucketName |-> [kind |-> "ResourceValue", Value |-> "RESOURCE_ID"],
                     AutomationAssumeRole |-> [kind |-> "StaticValue", Value |-> "arn:role"]]]

ConfigServices ==
    [rules_error : BOOLEAN,
     remediation : [RuleSet -> {PyNone, remediation_configuration}],
     resources : [RuleSet -> ResourceLists],
     start : [ResourceIds -> StartOutcomes]]

\* get_non_compliant_rules: [] when describe_compliance_by_config_rule raises.
get_non_compliant_rules(service) == IF service.rules_error THEN <<>> ELSE RuleNames

\* get_remediation_configuration
get_remediation_configuration(service, rule_name) ==
    IF rule_name \in DOMAIN service.remediation THEN service.remediation[rule_name] ELSE PyNone

\* get_non_compliant_resources
get_non_compliant_resources(service, rule_name) ==
    IF rule_name \in DOMAIN service.resources THEN service.resources[rule_name] ELSE <<>>

\* "Build parameters"
build_parameters(remediation_config, resource_id) ==
    [param_name \in DOMAIN remediation_config.Parameters |->
        IF remediation_config.Parameters[param_name].kind = "ResourceValue"
           /\ remediation_config.Parameters[param_name].Value = "RESOURCE_ID"
        THEN resource_id
        ELSE remediation_config.Parameters[param_name].Value]

\* What start_remediation_execution does to AWS Config and to its caller.
start_remediation_execution(service, started, rule_name, resource_type, resource_id) ==
    [executions |-> Append(started, [ConfigRuleName |-> rule_name, resourceType |-> resource_type,
                                     resourceId |-> resource_id]),
     ret |-> service.start[resource_id] = "started"]

\* execute_remediation that starts the execution before it looks at dry_run.
execute_remediation_body_late_check(service, started, rule_name, resource_id, resource_type, remediation_config, dry_run) ==
    LET out == start_remediation_execution(service, started, rule_name, resource_type, resource_id)
    IN  [out EXCEPT !.ret = dry_run \/ @]

\* execute_remediation: the value returned and the executions started so far.
execute_remediation_body(service, started, rule_name, resource_id, resource_type, remediation_config, dry_run) ==
    IF dry_run THEN [executions |-> started, ret |-> TRUE]
    ELSE start_remediation_execution(service, started, rule_name, resource_type, resource_id)

\* The loop of remediate_rule over the resources from the i-th; answers[i]
\* is whether the user typed 'y' for the i-th resource.
RECURSIVE remediate_loop(_, _, _, _, _, _, _, _)
remediate_loop(service, acc, rule_name, remediation_config, resources, i, dry_run, answers) ==
    IF i > Len(resources) THEN acc
    ELSE IF answers[i] = FALSE
    THEN remediate_loop(service, acc, rule_name, remediation_config, resources, i + 1,
                        dry_run, answers)
    ELSE LET out == execute_remediation_body(service, acc.executions, rule_name,
                        resources[i].ResourceId, resources[i].ResourceType,
                        remediation_config, dry_run)
         IN  remediate_loop(service,
                 [executions |-> out.executions,
                  success_count |-> IF out.ret THEN acc.success_count + 1 ELSE acc.success_count],
                 rule_name, remediation_config, resources, i + 1, dry_run, answers)

\* remediate_rule; when not interactive every answer is a yes.
remediate_rule_body(service, started, rule_name, dry_run, interactive, answers) ==
    LET remediation_config == get_remediation_configuration(service, rule_name)
        resources == get_non_compliant_resources(service, rule_name)
    IN  IF remediation_config = PyNone THEN [executions |-> started, ret |-> FALSE]
        ELSE IF resources = <<>> THEN [executions |-> started, ret |-> TRUE]
        ELSE LET acc == remediate_loop(service, [executions |-> started, success_count |-> 0],
                            rule_name, remediation_config, resources, 1, dry_run,
                            [i \in DOMAIN resources |-> interactive => answers[i]])
             IN  [executions |-> acc.executions, ret |-> acc.success_count = Len(resources)]

\* The loop of main over the non-compliant rules from the i-th.
RECURSIVE main_loop(_, _, _, _, _, _, _)
main_loop(service, started, rules, i, dry_run, interactive, answers) ==
    IF i > Len(rules) THEN started
    ELSE main_loop(service,
             remediate_rule_body(service, started, rules[i], dry_run, interactive,
                                 answers).executions,
             rules, i + 1, dry_run, interactive, answers)

\* main of the remediation script: the executions started when it ends.
remediate_main_body(service, started, rule, dry_run, interactive, answers) ==
    IF rule # PyNone
    THEN remediate_rule_body(service, started, rule.s, dry_run, interactive, answers).executions
    ELSE main_loop(service, started, get_non_compliant_rules(service), 1, dry_run,
                   interactive, answers)

NoRemCall ==
    [op |-> "idle", rule |-> PyNone, resource_id |-> "", dry_run |-> FALSE,
     interactive |-> FALSE, parameters |-> EmptyMap, ret |-> PyNone]

\* The answers typed at the prompts: the same for each rule, one per resource.
Answers2 == [1..Cardinality(ResourceIds) -> BOOLEAN]

execute_remediation(rule_name, resource_id, dry_run) ==
    /\ rem_call = NoRemCall
    /\ get_remediation_configuration(config_service, rule_name) # PyNone
    /\ LET remediation_config == get_remediation_configuration(config_service, rule_name)
           out == execute_remediation_body(config_service, executions, rule_name, resource_id,
                      resource_type_of(resource_id), remediation_config, dry_run)
       IN  /\ executions' = out.executions
           /\ rem_call' = [NoRemCall EXCEPT !.op = "execute_remediation",
                              !.rule = PyStr(rule_name), !.resource_id = resource_id,
                              !.dry_run = dry_run,
                              !.parameters = build_parameters(remediation_config, resource_id),
                              !.ret = PyBool(out.ret)]
    /\ UNCHANGED <<template, dependency_call, pricing_call, config_service>>
    /\ UNCHANGED <<mgr_vars, val_vars, extra_vars>>

remediate_main(rule, dry_run, interactive, answers) ==
    /\ rem_call = NoRemCall
    /\ executions' = remediate_main_body(config_service, executions, rule, dry_run,
                                         interactive, answers)
    /\ rem_call' = [NoRemCall EXCEPT !.op = "main", !.rule = rule, !.dry_run = dry_run,
                                     !.interactive = interactive]
    /\ UNCHANGED <<template, dependency_call, pricing_call, config_service>>
    /\ UNCHANGED <<mgr_vars, val_vars, extra_vars>>

\* ------------------------------------ start_lab in two processes
\* The LabManager processes that run start_lab side by side.
Procs == {1, 2}
\* A process that has not called start_lab yet.
NoProc == [pc |-> "start", lab_id |-> "", sessions |-> EmptyMap, clobbered |-> FALSE,
           ret |-> PyNone]
\* The sessions file between open(..., 'w') and the end of json.dump.
truncated_file == [readable |-> FALSE, doc |-> EmptyMap]

\* start_lab from its entry to the "already running" check.
start_lab_load(p, lab_id) ==
    /\ procs[p].pc = "start"
    /\ procs' = [procs EXCEPT ![p] =
          IF lab_id \notin DOMAIN labs
          THEN [NoProc EXCEPT !.pc = "done", !.lab_id = lab_id, !.ret = PyBool(FALSE)]
          ELSE LET sessions == _load_sessions(sessions_file) IN
               IF already_running(sessions, lab_id)
               THEN [NoProc EXCEPT !.pc = "done", !.lab_id = lab_id, !.sessions = sessions,
                                   !.ret = PyBool(FALSE)]
               ELSE [NoProc EXCEPT !.pc = "create", !.lab_id = lab_id, !.sessions = sessions]]
    /\ UNCHANGED <<mgr_vars, val_vars, tool_vars, lambda_call, config_evaluations>>

\* "Create new session", then _save_sessions as far as open(..., 'w'), which
\* empties the file.
start_lab_open(p) ==
    /\ procs[p].pc = "create"
    /\ LET lab_id == procs[p].lab_id
           session_id == make_session_id(lab_id, clock)
       IN  procs' = [procs EXCEPT ![p].pc = "dump",
                                  ![p].sessions = Put(@, session_id,
                                      new_session(lab_id, labs[lab_id], session_id, clock))]
    /\ sessions_file' = truncated_file
    /\ UNCHANGED <<clock, aws_available, call, before, saved, writes, used>>
    /\ UNCHANGED <<val_vars, tool_vars, lambda_call, config_evaluations>>

\* json.dump and the close of the file, then the return of start_lab.  A
\* process that had the file open while another one wrote it writes over the
\* start of that text: the file holds its own dump, or its dump followed by
\* the rest of the longer text, which json.load rejects.
start_lab_dump(p) ==
    /\ procs[p].pc = "dump"
    /\ sessions_file' \in {_save_sessions(procs[p].sessions)}
                           \cup (IF procs[p].clobbered THEN {truncated_file} ELSE {})
    /\ procs' = [q \in Procs |->
                   IF q = p THEN [procs[q] EXCEPT !.pc = "done", !.ret = PyBool(TRUE)]
                   ELSE IF procs[q].pc = "dump" THEN [procs[q] EXCEPT !.clobbered = TRUE]
                   ELSE procs[q]]
    /\ UNCHANGED <<clock, aws_available, call, before, saved, writes, used>>
    /\ UNCHANGED <<val_vars, tool_vars, lambda_call, config_evaluations>>

\* ------------------------------------------- Config-rule Lambda handlers
\* The four custom rules, by the module that holds the handler.
ConfigRules == {"required_tags", "ec2_instance_types", "s3_public_access", "iam_user_mfa"}

REQUIRED_TAGS == {"Environment", "Project", "Owner"}

\* The resource types required_tags looks at.
tagged_resource_types ==
    {"AWS::EC2::Instance", "AWS::EC2::Volume", "AWS::S3::Bucket", "AWS::RDS::DBInstance",
     "AWS::DynamoDB::Table"}

\* rule_parameters.get('approvedInstanceTypes', 't2.micro,t3.micro,t3.small').split(',')
approved_types(rule_parameters) ==
    IF rule_parameters.approvedInstanceTypes = Absent
    THEN {"t2.micro", "t3.micro", "t3.small"}
    ELSE rule_parameters.approvedInstanceTypes.types

\* required_tags.evaluate_compliance
required_tags_evaluate_compliance(configuration_item, rule_parameters) ==
    IF configuration_item.resourceType \notin tagged_resource_types THEN "NOT_APPLICABLE"
    ELSE IF configuration_item.configuration.tags = Absent THEN "NON_COMPLIANT"
    ELSE IF configuration_item.configuration.tags.keys = {} THEN "NON_COMPLIANT"
    ELSE IF REQUIRED_TAGS \subseteq configuration_item.configuration.tags.keys
    THEN "COMPLIANT" ELSE "NON_COMPLIANT"

\* ec2_instance_types.evaluate_compliance
ec2_instance_types_evaluate_compliance(configuration_item, rule_parameters) ==
    IF configuration_item.resourceType # "AWS::EC2::Instance" THEN "NOT_APPLICABLE"
    ELSE IF configuration_item.configuration.instanceType \notin approved_types(rule_parameters)
    THEN "NON_COMPLIANT" ELSE "COMPLIANT"

\* s3_public_access.evaluate_compliance.  aws is what S3 answers about the
\* bucket: its public access block ("blocked" when all four settings are on,
\* "open", "missing", or "error" for any other exception), whether its policy
\* allows a '*' principal, whether an ACL grant goes to AllUsers or
\* AuthenticatedUsers.
s3_public_access_evaluate_compliance(configuration_item, rule_parameters, aws) ==
    IF configuration_item.resourceType # "AWS::S3::Bucket" THEN "NOT_APPLICABLE"
    ELSE IF aws.public_access_block # "blocked" THEN "NON_COMPLIANT"
    ELSE IF aws.policy_public THEN "NON_COMPLIANT"
    ELSE IF aws.acl_public THEN "NON_COMPLIANT"
    ELSE "COMPLIANT"

\* iam_user_mfa.evaluate_compliance.  aws.mfa_devices is what list_mfa_devices
\* answers: "none", "device", or "error" when it raises.
iam_user_mfa_evaluate_compliance(configuration_item, rule_parameters, aws) ==
    IF configuration_item.resourceType # "AWS::IAM::User" THEN "NOT_APPLICABLE"
    ELSE IF configuration_item.resourceName = "root" THEN "NOT_APPLICABLE"
    ELSE IF aws.mfa_devices = "device" THEN "COMPLIANT" ELSE "NON_COMPLIANT"

\* evaluate_compliance of the module that holds the rule.
evaluate_compliance(rule, configuration_item, rule_parameters, aws) ==
    CASE rule = "required_tags" ->
            required_tags_evaluate_compliance(configuration_item, rule_parameters)
      [] rule = "ec2_instance_types" ->
            ec2_instance_types_evaluate_compliance(configuration_item, rule_parameters)
      [] rule = "s3_public_access" ->
            s3_public_access_evaluate_compliance(configuration_item, rule_parameters, aws)
      [] rule = "iam_user_mfa" ->
            iam_user_mfa_evaluate_compliance(configuration_item, rule_parameters, aws)

\* The put_evaluations request a handler builds.
put_evaluations_request(configuration_item, compliance_type, resultToken) ==
    [Evaluations |-> <<[ComplianceResourceType |-> configuration_item.resourceType,
                        ComplianceResourceId |-> configuration_item.resourceId,
                        ComplianceType |-> compliance_type]>>,
     ResultToken |-> resultToken]

\* A handler that submits nothing for a resource its rule does not apply to.
lambda_handler_body_skips_not_applicable(rule, event, aws) ==
    IF event.invokingEvent.configurationItem = Absent
    THEN [ret |-> [compliance_type |-> "NOT_APPLICABLE", early |-> TRUE], requests |-> <<>>]
    ELSE LET configuration_item == event.invokingEvent.configurationItem IN
         IF configuration_item.configurationItemStatus = "ResourceDeleted"
         THEN [ret |-> [compliance_type |-> "NOT_APPLICABLE", early |-> TRUE], requests |-> <<>>]
         ELSE LET compliance_type == evaluate_compliance(rule, configuration_item,
                                                         event.ruleParameters, aws)
              IN  [ret |-> [compliance_type |-> compliance_type, early |-> FALSE],
                   requests |-> IF compliance_type = "NOT_APPLICABLE" THEN <<>>
                                ELSE <<put_evaluations_request(configuration_item,
                                           compliance_type, event.resultToken)>>]

\* lambda_handler of each module: what it returns (early marks the two
\* returns that carry no ordering_timestamp) and the put_evaluations
\* requests it sends.
lambda_handler_body(rule, event, aws) ==
    IF event.invokingEvent.configurationItem = Absent
    THEN [ret |-> [compliance_type |-> "NOT_APPLICABLE", early |-> TRUE], requests |-> <<>>]
    ELSE LET configuration_item == event.invokingEvent.configurationItem IN
         IF configuration_item.configurationItemStatus = "ResourceDeleted"
         THEN [ret |-> [compliance_type |-> "NOT_APPLICABLE", early |-> TRUE], requests |-> <<>>]
         ELSE LET compliance_type == evaluate_compliance(rule, configuration_item,
                                                         event.ruleParameters, aws)
              IN  [ret |-> [compliance_type |-> compliance_type, early |-> FALSE],
                   requests |-> <<put_evaluations_request(configuration_item,
                                      compliance_type, event.resultToken)>>]

\* The configuration items AWS Config sends.
ConfigurationItems ==
    [resourceType : {"AWS::EC2::Instance", "AWS::S3::Bucket", "AWS::IAM::User",
                     "AWS::Lambda::Function"},
     resourceId : {"res-1"},
     resourceName : {"lab", "root"},
     configurationItemStatus : {"OK", "ResourceDiscovered", "ResourceDeleted"},
     configuration : [tags : {Absent} \cup {[ty |-> "list", keys |-> keys] :
                                               keys \in {{}, {"Project"}, REQUIRED_TAGS}},
                      instanceType : {"t3.micro", "m5.large"}]]

\* The events a handler is invoked with: with or without a configuration
\* item, with or without ruleParameters.
ConfigEvents ==
    [invokingEvent : [configurationItem : ConfigurationItems \cup {Absent}],
     ruleParameters : [approvedInstanceTypes : {Absent, [ty |-> "str", types |-> {"m5.large"}]}],
     resultToken : {"token"}]

\* What S3 and IAM answer to evaluate_compliance.
AwsAnswers ==
    [public_access_block : {"blocked", "open", "missing", "error"},
     policy_public : BOOLEAN, acl_public : BOOLEAN,
     mfa_devices : {"none", "device", "error"}]

\* No Config-rule Lambda has been invoked.
NoLambdaCall == [rule |-> "", event |-> Absent, ret |-> PyNone]

\* AWS Config invokes the handler of one rule.
lambda_handler(rule, event, aws) ==
    /\ lambda_call = NoLambdaCall
    /\ LET out == lambda_handler_body(rule, event, aws) IN
       /\ lambda_call' = [rule |-> rule, event |-> event, ret |-> out.ret]
       /\ config_evaluations' = config_evaluations \o out.requests
    /\ UNCHANGED <<mgr_vars, val_vars, tool_vars, procs>>

\* ------------------------------------------------------ specifications
\* LabManager.__init__: an empty sessions file.
InitManager ==
    /\ sessions_file = _save_sessions(EmptyMap)
    /\ clock = 0
    /\ call = NoCall
    /\ before = sessions_file
    /\ saved = EmptyMap
    /\ writes = 0
    /\ used = [k \in SessionIds |-> {}]

InitValidator ==
    /\ validation_results = initial_results
    /\ v_call = NoValCall

\* No template has been given to CloudFormationValidator.
EmptyTemplate ==
    [Resources |-> [r \in resource_names |-> [DependsOn |-> Absent, Properties |-> <<>>]]]

\* An account in which AWS Config reports nothing.
CompliantService ==
    [rules_error |-> FALSE, remediation |-> [r \in RuleSet |-> PyNone],
     resources |-> [r \in RuleSet |-> <<>>], start |-> [r \in ResourceIds |-> "started"]]

InitCloudFormationValidator ==
    /\ template = EmptyTemplate
    /\ dependency_call = NoDependencyCall

\* No start_lab process has started; AWS Config has invoked no rule.
InitExtra ==
    /\ procs = [p \in Procs |-> NoProc]
    /\ lambda_call = NoLambdaCall
    /\ config_evaluations = <<>>

InitTools ==
    /\ InitCloudFormationValidator
    /\ pricing_call = NoPricingCall
    /\ config_service = CompliantService
    /\ executions = <<>>
    /\ rem_call = NoRemCall

\* The lab manager, with or without AWS credentials.  Its commands update
\* one step, with notes; NextProgress below draws every step and notes.
Init ==
    /\ InitManager
    /\ aws_available \in BOOLEAN
    /\ InitValidator
    /\ InitExtra
    /\ account = World(Clean, <<>>, FALSE)
    /\ config = default_config
    /\ v_aws_available = TRUE
    /\ InitTools

Next ==
    \/ \E lab_id \in LabIds : start_lab(lab_id)
    \/ \E session_id \in SessionArgs : stop_lab(session_id)
    \/ \E session_id \in SessionArgs, verify \in BOOLEAN :
          \E script \in Scripts(session_id), answer \in Answers(session_id, verify) :
              cleanup_session(session_id, verify, script, answer)
    \/ \E session_id \in SessionArgs, completed \in BOOLEAN :
          update_session_progress(session_id, "setup_environment", completed,
                                  Text("note"))
    \/ \E session_id \in SessionArgs : get_session_progress(session_id)
    \/ main_exit
    \/ Tick

Spec == Init /\ [][Next]_vars

\* The lab manager with the completion commands, run with AWS credentials.
InitCompletion ==
    /\ InitManager
    /\ aws_available = TRUE
    /\ InitValidator
    /\ InitExtra
    /\ account = World(Clean, <<>>, FALSE)
    /\ config = default_config
    /\ v_aws_available = TRUE
    /\ InitTools

NextCompletion ==
    \/ \E lab_id \in LabIds : start_lab(lab_id)
    \/ \E session_id \in SessionArgs : stop_lab(session_id)
    \/ \E session_id \in SessionArgs, verify \in BOOLEAN :
          \E script \in Scripts(session_id) \ {"timeout", "raise"},
             answer \in {a \in Answers(session_id, verify) :
                           a.ec2_instances = 0 /\ a.lambda_functions = 0} :
              cleanup_session(session_id, verify, script, answer)
    \/ \E session_id \in SessionArgs, completed \in BOOLEAN :
          update_session_progress(session_id, "setup_environment", completed, PyNone)
    \/ \E session_id \in SessionArgs : \E answer \in CheckpointAnswers(session_id) :
          verify_lab_completion(session_id, answer)
    \/ get_certification_progress
    \/ main_exit
    \/ Tick

SpecCompletion == InitCompletion /\ [][NextCompletion]_vars

\* The sessions file left by start_lab, update_session_progress of one completed
\* step and verify_lab_completion, run one after the other in second 0.
completed_run(lab_id, answer) ==
    LET session_id == make_session_id(lab_id, 0)
        started == start_lab_body(_save_sessions(EmptyMap), lab_id, 0)
        updated == update_session_progress_body(started.file, session_id,
                                                "setup_environment", TRUE, PyNone, 0)
    IN  verify_lab_completion_body(updated.file, session_id, answer, TRUE, 0)

\* The commands run on a sessions file that holds a completed session.
InitCertification ==
    /\ \E lab_id \in {"iac-cloudformation"}, answer \in CheckpointInventories :
          LET out == completed_run(lab_id, answer) IN
          /\ sessions_file = out.file
          /\ saved = out.map
          /\ used = [k \in SessionIds |->
                        IF k # make_session_id(lab_id, 0) THEN {}
                        ELSE IF out.ret.final_valid
                        THEN {"setup_environment", "lab_complete"}
                        ELSE {"setup_environment"}]
    /\ clock = 0
    /\ call = NoCall
    /\ before = sessions_file
    /\ writes = 0
    /\ aws_available = TRUE
    /\ InitValidator
    /\ InitExtra
    /\ account = World(Clean, <<>>, FALSE)
    /\ config = default_config
    /\ v_aws_available = TRUE
    /\ InitTools

SpecCertification == InitCertification /\ [][NextCompletion]_vars

\* start_lab, update_session_progress of one completed step and
\* verify_lab_completion for one lab, run in second now on a sessions file
\* with no AWS resource of the session.
complete_lab(file, lab_id, now) ==
    LET session_id == make_session_id(lab_id, now)
        started == start_lab_body(file, lab_id, now)
        updated == update_session_progress_body(started.file, session_id,
                                                "setup_environment", TRUE, PyNone, now)
    IN  verify_lab_completion_body(updated.file, session_id,
            [cloudformation_stacks |-> 0, ec2_instances |-> 0, lambda_functions |-> 0,
             deployed_stacks |-> 0], TRUE, now)

\* Checkpoints are validated for sessions with and without progress, with
\* and without AWS credentials.
CheckpointNames == {"stack_deployed", "nested_stacks", "lab_complete"}

NextCheckpoint ==
    \/ \E lab_id \in LabIds : start_lab(lab_id)
    \/ \E session_id \in SessionArgs, completed \in BOOLEAN :
          update_session_progress(session_id, "setup_environment", completed, PyNone)
    \/ \E session_id \in SessionArgs, checkpoint_name \in CheckpointNames :
          \E answer \in CheckpointAnswers(session_id) :
              validate_lab_checkpoint(session_id, checkpoint_name, answer)
    \/ main_exit
    \/ Tick

SpecCheckpoint == Init /\ [][NextCheckpoint]_vars

\* Both labs have been completed in second 0; in second 1 the first lab has
\* been started again and its step completed.
InitRepeat ==
    /\ LET first == complete_lab(_save_sessions(EmptyMap), "iac-cloudformation", 0)
           second == complete_lab(first.file, "cicd-codepipeline", 0)
           again == start_lab_body(second.file, "iac-cloudformation", 1)
           out == update_session_progress_body(again.file,
                      make_session_id("iac-cloudformation", 1), "setup_environment",
                      TRUE, PyNone, 1)
       IN  /\ sessions_file = out.file
           /\ saved = out.map
           /\ used = [k \in SessionIds |->
                         IF k \in DOMAIN out.map THEN {"setup_environment"} ELSE {}]
    /\ clock = 1
    /\ call = NoCall
    /\ before = sessions_file
    /\ writes = 0
    /\ aws_available = TRUE
    /\ InitValidator
    /\ InitExtra
    /\ account = World(Clean, <<>>, FALSE)
    /\ config = default_config
    /\ v_aws_available = TRUE
    /\ InitTools

\* The sessions are verified and the certification progress is asked for.
NextRepeat ==
    \/ \E session_id \in SessionArgs : \E answer \in CheckpointAnswers(session_id) :
          verify_lab_completion(session_id, answer)
    \/ get_certification_progress
    \/ main_exit

SpecRepeat == InitRepeat /\ [][NextRepeat]_vars

\* Progress tracking alone: sessions are started and their steps updated.
NextProgress ==
    \/ \E lab_id \in LabIds : start_lab(lab_id)
    \/ \E session_id \in SessionArgs, step_name \in StepNames, completed \in BOOLEAN,
          notes \in NotesArgs :
          update_session_progress(session_id, step_name, completed, notes)
    \/ \E session_id \in SessionArgs : get_session_progress(session_id)
    \/ main_exit
    \/ Tick

SpecProgress == Init /\ [][NextProgress]_vars

\* The validator, run against every account and configuration.
InitVal ==
    /\ InitManager
    /\ aws_available = TRUE
    /\ InitValidator
    /\ InitExtra
    /\ account \in Worlds
    /\ config \in Configs
    /\ v_aws_available \in BOOLEAN
    /\ InitTools

NextVal ==
    \/ validate_lab_session(ValSessionId)

SpecValidator == InitVal /\ [][NextVal]_vars

\* The lab manager and the lab validator before any command.
InitLabs ==
    /\ InitManager
    /\ aws_available = TRUE
    /\ InitValidator
    /\ InitExtra
    /\ account = World(Clean, <<>>, FALSE)
    /\ config = default_config
    /\ v_aws_available = TRUE

\* Two processes run start_lab once each, step by step, while time passes.
InitRace ==
    /\ InitLabs
    /\ InitTools

NextRace ==
    \/ \E p \in Procs, lab_id \in LabIds : start_lab_load(p, lab_id)
    \/ \E p \in Procs : start_lab_open(p)
    \/ \E p \in Procs : start_lab_dump(p)
    \/ Tick

SpecRace == InitRace /\ [][NextRace]_vars

\* Each handler is invoked once, with every event and every answer of AWS
\* that bears on its rule.
InitLambda ==
    /\ InitLabs
    /\ InitTools

NextLambda ==
    \/ /\ lambda_call = NoLambdaCall
       /\ \E rule \in ConfigRules, event \in ConfigEvents, aws \in AwsAnswers :
          /\ rule # "s3_public_access"
                => aws.public_access_block = "blocked" /\ ~aws.policy_public /\ ~aws.acl_public
          /\ rule # "iam_user_mfa" => aws.mfa_devices = "none"
          /\ lambda_handler(rule, event, aws)

SpecLambda == InitLambda /\ [][NextLambda]_vars

\* CloudFormationValidator.validate_dependencies on every template with at
\* most MaxEdges dependency entries.
InitDependencies ==
    /\ InitLabs
    /\ \E a \in 0..MaxEdges, b \in 0..MaxEdges, c \in 0..MaxEdges :
          /\ a + b + c <= MaxEdges
          /\ template \in {[Resources |-> (ResourceNames[1] :> x @@ ResourceNames[2] :> y
                                            @@ ResourceNames[3] :> z)] :
                               x \in ResourceConfigs(a), y \in ResourceConfigs(b),
                               z \in ResourceConfigs(c)}
    /\ dependency_call = NoDependencyCall
    /\ pricing_call = NoPricingCall
    /\ config_service = CompliantService
    /\ executions = <<>>
    /\ rem_call = NoRemCall

NextDependencies ==
    \/ validate_dependencies

SpecDependencies == InitDependencies /\ [][NextDependencies]_vars

\* SimplePricingHelper.estimate_lab_cost on every list of services and duration.
InitPricing ==
    /\ InitLabs
    /\ InitTools

NextPricing ==
    \/ \E services \in ServiceLists, duration_hours \in Durations :
          estimate_lab_cost(services, duration_hours)

SpecPricing == InitPricing /\ [][NextPricing]_vars

\* The remediation script, run once against every AWS Config account.
InitRemediation ==
    /\ InitLabs
    /\ InitCloudFormationValidator
    /\ pricing_call = NoPricingCall
    /\ config_service \in ConfigServices
    /\ executions = <<>>
    /\ rem_call = NoRemCall

NextRemediation ==
    \/ \E rule_name \in RuleSet, resource_id \in ResourceIds, dry_run \in BOOLEAN :
          execute_remediation(rule_name, resource_id, dry_run)
    \/ \E rule \in {PyNone} \cup {PyStr(r) : r \in RuleSet \cup {"no-such-rule"}},
          dry_run \in BOOLEAN, interactive \in BOOLEAN :
          \E answers \in (IF interactive THEN Answers2
                          ELSE {[i \in 1..Cardinality(ResourceIds) |-> TRUE]}) :
              remediate_main(rule, dry_run, interactive, answers)

SpecRemediation == InitRemediation /\ [][NextRemediation]_vars

\* ------------------------------------------------------------ properties
\* The sessions, as _load_sessions reads them, after and before the command.
Sessions == _load_sessions(sessions_file)
Before == _load_sessions(before)
\* The session the command was given.
Target == Sessions[call.session_id]
\* The sessions of a lab that have status 'running'.
RunningOf(sessions, lab_id) ==
    {k \in DOMAIN sessions : sessions[k].lab_id = lab_id /\ sessions[k].status = "running"}

\* C1: start_lab of a configured lab that has no running session returns
\* True, and afterwards exactly one session of that lab is running; its
\* lab_id is the requested lab.
C1_StartLabCreatesRunningSession ==
    (call.op = "start_lab" /\ call.lab_id \in DOMAIN labs /\ RunningOf(Before, call.lab_id) = {})
        => /\ call.ret = PyBool(TRUE)
           /\ Cardinality(RunningOf(Sessions, call.lab_id)) = 1
           /\ \A k \in DOMAIN Sessions :
                  (k[1] = call.lab_id /\ Sessions[k].status = "running")
                      => Sessions[k].lab_id = call.lab_id

\* A lab is started while another lab's session is running and an earlier
\* session of the same lab is stopped.
C1_Witness ==
    /\ call.op = "start_lab" /\ call.lab_id \in DOMAIN labs
    /\ RunningOf(Before, call.lab_id) = {}
    /\ call.ret = PyBool(TRUE)
    /\ Cardinality(DOMAIN Sessions) = 2

\* C2: start_lab of a lab id that is not configured returns False and
\* leaves the sessions file as it was.
C2_StartUnknownLab ==
    (call.op = "start_lab" /\ call.lab_id \notin DOMAIN labs)
        => call.ret = PyBool(FALSE) /\ sessions_file = before

C2_Witness ==
    /\ call.op = "start_lab" /\ call.lab_id \notin DOMAIN labs
    /\ call.ret = PyBool(FALSE)
    /\ DOMAIN Sessions # {}

\* C3: stop_lab of a running session returns True, makes that session
\* 'stopped' with an end_time, and changes no other session.
C3_StopRunningSession ==
    (call.op = "stop_lab" /\ call.session_id \in DOMAIN Before
        /\ Before[call.session_id].status = "running")
        => /\ call.ret = PyBool(TRUE)
           /\ DOMAIN Sessions = DOMAIN Before
           /\ Target.status = "stopped"
           /\ Target.end_time = isoformat(datetime_now(call.now))
           /\ \A k \in DOMAIN Before : k # call.session_id => Sessions[k] = Before[k]

\* A session is stopped while another one is running.
C3_Witness ==
    /\ call.op = "stop_lab" /\ call.ret = PyBool(TRUE)
    /\ Before[call.session_id].status = "running"
    /\ \E k \in DOMAIN Sessions : k # call.session_id /\ Sessions[k].status = "running"

\* C4: stop_lab and update_session_progress of a session id that is not in
\* the sessions file return False and leave the file as it was.
C4_UnknownSession ==
    (call.op \in {"stop_lab", "update_session_progress"} /\ call.session_id \notin DOMAIN Before)
        => call.ret = PyBool(FALSE) /\ sessions_file = before

C4_Witness ==
    /\ call.op = "update_session_progress"
    /\ call.session_id \notin DOMAIN Before
    /\ call.ret = PyBool(FALSE)
    /\ DOMAIN Sessions # {}

\* C5: cleanup_session with verification, of a session in the file, whose
\* script exits with 0 and whose inventory afterwards is empty, returns True
\* and makes the session 'cleaned_up'.
C5_CleanupSucceeds ==
    (call.op = "cleanup_session" /\ call.session_id \in DOMAIN Before /\ call.verify
        /\ call.script = "exit0" /\ call.remaining = 0)
        => call.ret = PyBool(TRUE) /\ Target.status = "cleaned_up"

\* The inventory was taken (credentials are there) and was empty.
C5_Witness ==
    /\ call.op = "cleanup_session" /\ call.session_id \in DOMAIN Before
    /\ call.verify /\ aws_available /\ call.script = "exit0" /\ call.remaining = 0
    /\ Target.status = "cleaned_up"

\* C6: cleanup_session returns False and makes the session 'cleanup_failed'
\* whenever the script exits non-zero, times out or raises, or, with
\* verification and credentials, a resource of the session is left.
C6_CleanupFails ==
    (call.op = "cleanup_session" /\ call.session_id \in DOMAIN Before
        /\ \/ call.script \in {"nonzero", "timeout", "raise"}
           \/ (call.verify /\ aws_available /\ call.remaining > 0))
        => call.ret = PyBool(FALSE) /\ Target.status = "cleanup_failed"

\* The script failed although the inventory afterwards is empty.
C6_Witness ==
    /\ call.op = "cleanup_session" /\ call.session_id \in DOMAIN Before
    /\ call.script = "timeout" /\ call.verify /\ aws_available /\ call.remaining = 0
    /\ Target.status = "cleanup_failed"

\* C7: after update_session_progress calls on a session, get_session_progress
\* reports one step per distinct step name used, a completion_percentage of
\* 100 x completed / steps, which is 100.0 exactly when every step is completed.
C7_ProgressReport ==
    \A k \in DOMAIN sessions_file.doc :
        LET report == get_session_progress_body(sessions_file, k)
            n == Len(report.steps)
            done == Cardinality({i \in DOMAIN report.steps : report.steps[i].completed})
            pct == report.completion_percentage
        IN  used[k] # {}
            => /\ {report.steps[i].name : i \in DOMAIN report.steps} = used[k]
               /\ n = Cardinality(used[k])
               /\ pct.num * n = 100 * done * pct.den
               /\ (pct = [num |-> 100, den |-> 1]) <=> (done = n)

\* A session whose step has been updated twice: first left open, then
\* completed.
C7_Witness ==
    \E k \in DOMAIN sessions_file.doc :
        LET report == get_session_progress_body(sessions_file, k) IN
        /\ call.op = "update_session_progress" /\ call.session_id = k
        /\ k \in DOMAIN Before /\ Before[k].progress # Absent
        /\ Before[k].progress.completion_percentage = [num |-> 0, den |-> 1]
        /\ Len(Before[k].progress.steps) = 1
        /\ Len(report.steps) = 1
        /\ report.completion_percentage = [num |-> 100, den |-> 1]

\* C8: what _load_sessions reads is the map _save_sessions was given:
\* the same session ids, and every field with the value it had.
C8_SaveLoadRoundTrip ==
    _load_sessions(sessions_file) = saved

\* The saved map holds a stopped session with a progress record with notes
\* and a step that is not completed.
C8_Witness ==
    \E k \in DOMAIN saved :
        /\ saved[k].end_time # Absent
        /\ saved[k].progress # Absent
        /\ \E i \in DOMAIN saved[k].progress.steps :
               /\ saved[k].progress.steps[i].notes = Text("note")
               /\ saved[k].progress.steps[i].completed_at = PyNone

\* Rank of a check status: error > failed > warning > passed.
Severity(status) ==
    CASE status = "passed" -> 0
      [] status = "warning" -> 1
      [] status = "failed" -> 2
      [] status = "error" -> 3

\* C9: the overall_status of a validation is the most severe status among
\* its checks, in the order error > failed > warning > passed.
C9_OverallStatus ==
    (v_call.op = "validate_lab_session" /\ v_aws_available)
        => LET checks == validation_results.checks IN
           /\ \A name \in DOMAIN checks :
                  Severity(checks[name].status) <= Severity(validation_results.overall_status)
           /\ \E name \in DOMAIN checks :
                  checks[name].status = validation_results.overall_status

\* One check is in error while another has failed.
C9_Witness ==
    /\ v_call.op = "validate_lab_session" /\ v_aws_available
    /\ validation_results.overall_status = "error"
    /\ \E name \in DOMAIN validation_results.checks :
           validation_results.checks[name].status = "failed"
    /\ \E name \in DOMAIN validation_results.checks :
           validation_results.checks[name].status = "passed"

\* C10: without AWS credentials validate_lab_session runs no check and
\* returns overall_status 'error', no checks and the error message
\* 'AWS credentials not available'.
C10_NoCredentials ==
    (v_call.op = "validate_lab_session" /\ ~v_aws_available)
        => /\ v_call.ran = {}
           /\ validation_results = initial_results
           /\ v_call.ret.overall_status = "error"
           /\ DOMAIN v_call.ret.checks = {}
           /\ \E i \in DOMAIN v_call.ret.errors :
                  v_call.ret.errors[i] = Message("AWS credentials not available")

\* The account has a stack in a bad state that a run would have reported.
C10_Witness ==
    /\ v_call.op = "validate_lab_session" /\ ~v_aws_available
    /\ v_call.ret.overall_status = "error"
    /\ \E i \in DOMAIN account.stacks :
           account.stacks[i].SessionId = ValSessionId
           /\ account.stacks[i].StackStatus = "UPDATE_IN_PROGRESS"


\* The cloudformation check_result of the validation that has just run.
CfCheck == validation_results.checks["cloudformation"]

CfChecked ==
    /\ v_call.op = "validate_lab_session"
    /\ "cloudformation" \in v_call.ran

RequiredTags == {config.required_tags[j] : j \in DOMAIN config.required_tags}

\* C11: when a stack of the account (all stacks being in a _COMPLETE status,
\* as list_stacks selects them) lacks one of the required tags, the
\* cloudformation check is 'warning' and has at least one issue.
C11_MissingTagWarns ==
    ( /\ CfChecked
      /\ config.required_tags = <<"Project", "SessionId", "LabName">>
      /\ \A i \in DOMAIN account.stacks : ends_with_COMPLETE(account.stacks[i].StackStatus)
      /\ \E i \in DOMAIN account.stacks : ~(RequiredTags \subseteq account.stacks[i].Tags) )
    => (CfCheck.status = "warning" /\ Len(CfCheck.issues) > 0)

\* C12: when list_stacks fails with a ClientError, the cloudformation check
\* is 'error' and has at least one issue.
C12_ListStacksErrorReported ==
    (CfChecked /\ account.list_stacks_error)
    => (CfCheck.status = "error" /\ Len(CfCheck.issues) > 0)

\* The dependency graph of the template: resource r depends on resource t
\* when t is a DependsOn entry of r or the target of a Ref or Fn::GetAtt in
\* the Properties of r.
DependencyGraph ==
    {e \in resource_names \X resource_names :
        LET c == template.Resources[e[1]] IN
        \/ c.DependsOn # Absent /\ c.DependsOn.ty = "str" /\ c.DependsOn.name = e[2]
        \/ c.DependsOn # Absent /\ c.DependsOn.ty = "list"
              /\ \E i \in DOMAIN c.DependsOn.items : c.DependsOn.items[i] = e[2]
        \/ \E i \in DOMAIN c.Properties : c.Properties[i].target = e[2]}

\* The pairs joined by a path of at most n edges of E.
RECURSIVE Paths(_, _)
Paths(E, n) ==
    IF n = 1 THEN E
    ELSE LET P == Paths(E, n - 1) IN
         P \cup {e \in resource_names \X resource_names :
                    \E m \in resource_names : <<e[1], m>> \in P /\ <<m, e[2]>> \in E}

GraphHasCycle ==
    \E r \in resource_names : <<r, r>> \in Paths(DependencyGraph, Cardinality(resource_names))

C14_SavingsNotNegative ==
    pricing_call.op = "estimate_lab_cost" =>
        /\ RatLeq(Rat(0), pricing_call.ret.standard_cost)
        /\ RatLeq(pricing_call.ret.free_tier_cost, pricing_call.ret.standard_cost)
        /\ RatLeq(Rat(0), pricing_call.ret.potential_savings)

\* An estimate for more EC2 hours than the Free Tier covers: the Free Tier
\* cost is positive and below the standard cost.
C14_Witness ==
    /\ pricing_call.op = "estimate_lab_cost"
    /\ pricing_call.ret.duration_hours = Rat(751)
    /\ "ec2" \in DOMAIN pricing_call.ret.breakdown
    /\ pricing_call.ret.free_tier_cost # Rat(0)
    /\ pricing_call.ret.free_tier_cost # pricing_call.ret.standard_cost
    /\ pricing_call.ret.potential_savings # Rat(0)

\* C15: in dry-run mode no start_remediation_execution call is made, by
\* execute_remediation or by the script as a whole, and execute_remediation
\* returns True.
C15_DryRunStartsNothing ==
    (rem_call.op # "idle" /\ rem_call.dry_run) =>
        /\ executions = <<>>
        /\ rem_call.op = "execute_remediation" => rem_call.ret = PyBool(TRUE)

\* A dry run of execute_remediation for a resource whose remediation would
\* not have started.
C15_Witness ==
    /\ rem_call.op = "execute_remediation"
    /\ rem_call.dry_run
    /\ rem_call.ret = PyBool(TRUE)
    /\ config_service.start[rem_call.resource_id] = "raises"
    /\ rem_call.parameters["S3BucketName"] = rem_call.resource_id

\* C16: whatever sequence of start_lab, stop_lab, cleanup_session,
\* update_session_progress and verify_lab_completion has run, no lab has more
\* than one session with status 'running'; and a start_lab for a lab that had a
\* running session returned False and left the sessions file as it was.
C16_OneRunningSessionPerLab ==
    /\ \A lab_id \in DOMAIN labs : Cardinality(RunningOf(Sessions, lab_id)) <= 1
    /\ (call.op = "start_lab" /\ RunningOf(Before, call.lab_id) # {})
           => (call.ret = PyBool(FALSE) /\ sessions_file = before)

\* A start_lab refused because the lab, stopped once and started again, is running.
C16_Witness ==
    /\ call.op = "start_lab"
    /\ RunningOf(Before, call.lab_id) # {}
    /\ call.ret = PyBool(FALSE)
    /\ \E k \in DOMAIN Sessions : Sessions[k].lab_id = call.lab_id /\ Sessions[k].status = "stopped"

\* C17: a start_lab that returned True stored its session under an id no record
\* had before: the file has exactly one record more and every earlier record is
\* still there, unchanged.
C17_StartLabAddsNewRecord ==
    (call.op = "start_lab" /\ call.ret = PyBool(TRUE))
        => /\ make_session_id(call.lab_id, call.now) \notin DOMAIN Before
           /\ Cardinality(DOMAIN Sessions) = Cardinality(DOMAIN Before) + 1
           /\ \A k \in DOMAIN Before : k \in DOMAIN Sessions /\ Sessions[k] = Before[k]

\* C18: after a verify_lab_completion whose final 'lab_complete' checkpoint
\* passed, the session in the file has the 'lab_complete' step.
C18_FinalCheckpointStepKept ==
    (call.op = "verify_lab_completion" /\ call.ret.final_valid)
        => /\ Target.progress # Absent
           /\ \E i \in DOMAIN Target.progress.steps :
                  Target.progress.steps[i].name = "lab_complete"

\* C19: a verify_lab_completion that set the session's status to 'completed'
\* had its final checkpoint validation return valid.
C19_CompletedOnlyIfFinalValid ==
    (/\ call.op = "verify_lab_completion"
     /\ call.session_id \in DOMAIN Before
     /\ Before[call.session_id].status # "completed"
     /\ Target.status = "completed")
        => call.ret.final_valid

\* C20: a session whose status was 'completed' before a command still has that
\* status after it, and completed_labs of get_certification_progress is not
\* smaller after the command than before it.
C20_CompletedStaysCompleted ==
    /\ \A k \in DOMAIN Before :
           Before[k].status = "completed"
               => (k \in DOMAIN Sessions /\ Sessions[k].status = "completed")
    /\ get_certification_progress_body(sessions_file).completed_labs
           >= get_certification_progress_body(before).completed_labs

\* C21: when two processes have run start_lab for the same lab, whatever the
\* interleaving of their loads and saves, the file holds at most one running
\* session of that lab and at most one of the two calls returned True.
C21_OneStartWins ==
    (/\ \A p \in Procs : procs[p].pc = "done"
     /\ procs[1].lab_id = procs[2].lab_id)
        => /\ Cardinality(RunningOf(Sessions, procs[1].lab_id)) <= 1
           /\ ~(procs[1].ret = PyBool(TRUE) /\ procs[2].ret = PyBool(TRUE))

\* C22: a session that cleanup_session left with cleanup_verified = True had
\* its post-cleanup inventory taken (verification asked for, credentials
\* there) and the inventory showed no stack, instance or function.
C22_VerifiedOnlyAfterInventory ==
    (/\ call.op = "cleanup_session"
     /\ call.session_id \in DOMAIN Before
     /\ Target.cleanup_verified = PyBool(TRUE))
        => (call.verify /\ aws_available /\ call.remaining = 0)

\* C23: in every progress record of the sessions file the step names are
\* pairwise distinct; current_step is None exactly when every recorded step is
\* completed, and otherwise it names a recorded step that is not completed.
C23_ProgressWellFormed ==
    \A k \in DOMAIN Sessions :
        LET progress == Sessions[k].progress IN
        progress # Absent
            => /\ \A i, j \in DOMAIN progress.steps :
                      progress.steps[i].name = progress.steps[j].name => i = j
               /\ (progress.current_step = PyNone)
                      <=> (\A i \in DOMAIN progress.steps : progress.steps[i].completed)
               /\ progress.current_step # PyNone
                      => \E i \in DOMAIN progress.steps :
                             /\ Text(progress.steps[i].name) = progress.current_step
                             /\ ~progress.steps[i].completed

\* A step has just been completed while an earlier one is still open: the
\* current step is the open one.
C23_Witness ==
    /\ call.op = "update_session_progress" /\ call.completed
    /\ call.session_id \in DOMAIN Sessions
    /\ Target.progress # Absent
    /\ Len(Target.progress.steps) = 2
    /\ Target.progress.current_step = Text(Target.progress.steps[1].name)
    /\ Target.progress.steps[2].name = call.step_name
    /\ Target.progress.steps[2].completed

\* C24: what get_certification_progress reports has completed_labs <=
\* total_labs and completion_percentage <= 100.
C24_CertificationProgressBounded ==
    call.op = "get_certification_progress"
        => /\ call.ret.completed_labs <= call.ret.total_labs
           /\ call.ret.completion_percentage.num <= 100 * call.ret.completion_percentage.den

\* C25: stop_lab of a session that is in the file and is not 'running' returns
\* False and leaves the session, with its status and end_time, as it was; the
\* file is not written.
C25_StopNotRunning ==
    (/\ call.op = "stop_lab"
     /\ call.session_id \in DOMAIN Before
     /\ Before[call.session_id].status # "running")
        => /\ call.ret = PyBool(FALSE)
           /\ call.session_id \in DOMAIN Sessions
           /\ Target = Before[call.session_id]
           /\ sessions_file = before

\* stop_lab of a completed session, a second after it was completed.
C25_Witness ==
    /\ call.op = "stop_lab"
    /\ call.session_id \in DOMAIN Before
    /\ Before[call.session_id].status = "completed"
    /\ call.now # call.session_id[2]
    /\ call.ret = PyBool(FALSE)
    /\ Target.status = "completed"
    /\ Target.end_time = Absent

\* C26: validate_lab_checkpoint for a session in the file returns valid = False
\* exactly when one of its checks is 'failed'; when the result is valid the
\* checkpoint is, after the call, a completed step of the session's progress,
\* completed at the time of the call; when it is not, the session's progress
\* and the whole file are as they were.
C26_CheckpointRecordedIffValid ==
    (call.op = "validate_lab_checkpoint" /\ call.session_id \in DOMAIN Before)
        => /\ (~call.ret.valid)
                  <=> (\E i \in DOMAIN call.ret.checks : call.ret.checks[i] = "failed")
           /\ call.ret.valid
                  => /\ Target.progress # Absent
                     /\ \E i \in DOMAIN Target.progress.steps :
                            /\ Target.progress.steps[i].name = call.step_name
                            /\ Target.progress.steps[i].completed
                            /\ Target.progress.steps[i].completed_at
                                   = isoformat(datetime_now(call.now))
           /\ ~call.ret.valid
                  => /\ Target.progress = Before[call.session_id].progress
                     /\ sessions_file = before

\* With credentials, a checkpoint whose check passed is recorded next to a
\* step that is still open.
C26_Witness ==
    /\ call.op = "validate_lab_checkpoint" /\ call.session_id \in DOMAIN Before
    /\ aws_available
    /\ call.ret.valid
    /\ call.ret.checks = <<"passed">>
    /\ call.step_name = "stack_deployed"
    /\ Len(Target.progress.steps) = 2
    /\ Target.progress.current_step = Text("setup_environment")

\* C27: a handler invoked with an event that has no configurationItem, or
\* whose item's status is 'ResourceDeleted', returns compliance_type
\* NOT_APPLICABLE and sends nothing to AWS Config; invoked with any other
\* event it sends exactly one evaluation, whose ComplianceType is the
\* compliance_type it returns.
C27_OneEvaluationPerEvent ==
    lambda_call # NoLambdaCall
        => LET item == lambda_call.event.invokingEvent.configurationItem IN
           IF item = Absent \/ item.configurationItemStatus = "ResourceDeleted"
           THEN /\ lambda_call.ret.compliance_type = "NOT_APPLICABLE"
                /\ config_evaluations = <<>>
           ELSE /\ Len(config_evaluations) = 1
                /\ Len(config_evaluations[1].Evaluations) = 1
                /\ config_evaluations[1].Evaluations[1].ComplianceType
                       = lambda_call.ret.compliance_type

\* required_tags, invoked for a live Lambda function, a type the rule does
\* not look at: NOT_APPLICABLE is returned and is submitted.
C27_Witness ==
    /\ lambda_call # NoLambdaCall
    /\ lambda_call.rule = "required_tags"
    /\ lambda_call.event.invokingEvent.configurationItem # Absent
    /\ lambda_call.event.invokingEvent.configurationItem.configurationItemStatus = "OK"
    /\ lambda_call.event.invokingEvent.configurationItem.resourceType = "AWS::Lambda::Function"
    /\ lambda_call.ret.compliance_type = "NOT_APPLICABLE"
    /\ Len(config_evaluations) = 1
    /\ config_evaluations[1].Evaluations[1].ComplianceType = "NOT_APPLICABLE"

====
